---------------------------- MODULE Spec2Model ----------------------------
(***************************************************************************)
(* Model of the vault client of Rebalancy/aave-vault-rebalancer.           *)
(*                                                                         *)
(*  - BalanceFigma (src/unnamed/part_000, lines 532-1873): the deposit and *)
(*    withdraw state machines, the two wagmi write hooks they share, the   *)
(*    two receipt hooks, the two effects that react to them, the oracle    *)
(*    request of handleConfirmDeposit and the allowance re-check.          *)
(*  - useAllocationData (src/unnamed/part_002, lines 112-247): one         *)
(*    aggregation pass over CHAIN_CONFIGS.                                 *)
(*  - usePerformanceData (src/unnamed/part_002, lines 588-608): the        *)
(*    reconciled value of the user's vault shares.                         *)
(*                                                                         *)
(* React is modelled event by event: a handler runs to completion on the   *)
(* values of the render it was created in, its state updates are committed *)
(* together, and the passive effects of the committed render run next, as  *)
(* the step RunEffects, before any other event is handled.  An awaited     *)
(* promise (oracle request, allowance refetch) is a pending closure that   *)
(* keeps the values of the render that created it.                         *)
(*                                                                         *)
(* Strings that the code inspects character by character (the amount       *)
(* fields) are sequences of one-character strings.  uint256 values are     *)
(* sequences of 64 hexadecimal digits, most significant first.  Decimal    *)
(* numbers (JavaScript floats of formatUnits values) are exact integers in *)
(* units of 10^-6, or exact fractions compared by cross-multiplication;    *)
(* floating-point rounding is not modelled.                                *)
(*                                                                         *)
(* The status-message list (TransactionStatusContext) is written but never *)
(* read by BalanceFigma, so the calls add/upsert/removeMessage are not     *)
(* part of the flow actions below; the two message providers              *)
(* (TransactionStatusContext, MessageStateContext) are modelled by their   *)
(* own actions and specifications, driven by any sequence of the calls     *)
(* they export.  The wallet stays connected (address and chainId are       *)
(* defined and constant).                                                  *)
(***************************************************************************)
EXTENDS Integers, Sequences, FiniteSets, TLC

(***************************************************************************)
(* Bounds of the model.                                                    *)
(***************************************************************************)
\* write requests (writeUSDC / writeVault calls) made in one run
MaxWrites == 3
\* oracle requests (suspended handleConfirmDeposit calls) pending at once
MaxOracle == 1
\* allowance re-checks (refetchAllowance().then closures) pending at once
MaxRechecks == 1
\* aggregation passes (fetchAllocationData calls) awaiting reads at once
MaxPasses == 2

(***************************************************************************)
(* Text: sequences of one-character strings.                               *)
(***************************************************************************)
Digits == {"0", "1", "2", "3", "4", "5", "6", "7", "8", "9"}

DigitVal(c) ==
  CASE c = "0" -> 0 [] c = "1" -> 1 [] c = "2" -> 2 [] c = "3" -> 3
    [] c = "4" -> 4 [] c = "5" -> 5 [] c = "6" -> 6 [] c = "7" -> 7
    [] c = "8" -> 8 [] c = "9" -> 9 [] OTHER -> 0

RECURSIVE DecVal(_)
\* BigInt / Number of a string of decimal digits ('' is 0)
DecVal(ds) ==
  CHOOSE v \in {IF d = <<>> THEN 0
                ELSE 10 * DecVal(SubSeq(d, 1, Len(d) - 1)) + DigitVal(d[Len(d)])
                  : d \in {ds}} : TRUE

DotPositions(s) == {i \in 1..Len(s) : s[i] = "."}

FirstDot(s) == CHOOSE i \in DotPositions(s) : \A j \in DotPositions(s) : i <= j

\* value.split('.')[0]
IntegerPart(s) ==
  IF DotPositions(s) = {} THEN s ELSE SubSeq(s, 1, FirstDot(s) - 1)

\* everything after the first '.'
AfterFirstDot(s) ==
  IF DotPositions(s) = {} THEN <<>> ELSE SubSeq(s, FirstDot(s) + 1, Len(s))

\* value.split('.')[1]: the text between the first and the second '.'
FractionPart(s) == IntegerPart(AfterFirstDot(s))

\* value.split('.').length
NumParts(s) == Cardinality(DotPositions(s)) + 1

IsNumericChar(c) == c \in Digits \cup {"."}

IsNotDot(c) == c # "."

\* first six characters of a fraction, padded with '0' (padEnd(6, '0'))
SixDigits(f) == [i \in 1..6 |-> IF i <= Len(f) THEN f[i] ELSE "0"]

(* sanitizeAmountInput, part_000 547-563 *)
sanitizeAmountInput(value) ==
  LET stripped == SelectSeq(value, IsNumericChar)
      n        == NumParts(stripped)
      oneDot   == IF n > 2
                  THEN IntegerPart(stripped) \o <<".">>
                         \o SelectSeq(AfterFirstDot(stripped), IsNotDot)
                  ELSE stripped
  IN  IF n = 2 /\ Len(FractionPart(stripped)) > 6
      THEN IntegerPart(stripped) \o <<".">> \o SubSeq(FractionPart(stripped), 1, 6)
      ELSE oneDot

(* parseFloat of a string of digits and dots: the longest prefix           *)
(* digits[.digits]; NaN when that prefix holds no digit.  The value is     *)
(* micro/10^6, plus a positive rest below 10^-6 when tail holds.           *)
parseFloat(s) ==
  CHOOSE num \in {[nan   |-> ip = <<>> /\ fp = <<>>,
                   micro |-> DecVal(ip) * 1000000 + DecVal(SixDigits(fp)),
                   tail  |-> \E i \in 7..Len(fp) : fp[i] # "0"]
                    : ip \in {IntegerPart(s)}, fp \in {FractionPart(s)}} : TRUE

(* isValidAmount, part_000 566-570 *)
isValidAmount(value) ==
  IF value = <<>> \/ value = <<".">> THEN FALSE
  ELSE \E num \in {parseFloat(value)} :
         ~num.nan /\ (num.micro > 0 \/ num.tail)

(* viem parseUnits(value, 6) as called at part_000 696, 918, 1580, for a   *)
(* string with at most one '.': the fraction is padded to six digits, a    *)
(* longer fraction is rounded half up at the sixth digit.                  *)
parseUnits(value) ==
  CHOOSE wei \in {DecVal(ip) * 1000000 + DecVal(SixDigits(fp))
                    + (IF Len(fp) > 6 /\ DigitVal(fp[7]) >= 5 THEN 1 ELSE 0)
                    : ip \in {IntegerPart(value)}, fp \in {FractionPart(value)}} :
    TRUE

(***************************************************************************)
(* uint256 values: 64 hexadecimal digits, most significant first.          *)
(***************************************************************************)
Pow16(k) == IF k = 0 THEN 1 ELSE IF k = 1 THEN 16 ELSE IF k = 2 THEN 256
  ELSE IF k = 3 THEN 4096 ELSE IF k = 4 THEN 65536 ELSE IF k = 5 THEN 1048576
  ELSE IF k = 6 THEN 16777216 ELSE 268435456

\* BigInt(n) for 0 <= n < 2^31
ToU256(n) ==
  [i \in 1..64 |-> IF 64 - i > 7 THEN 0 ELSE (n \div Pow16(64 - i)) % 16]

ZeroU256 == ToU256(0)

\* a >= b
GEu256(a, b) ==
  \E x \in {a}, y \in {b} :
    LET diff == {i \in 1..64 : x[i] # y[i]}
    IN  diff = {} \/ (LET k == CHOOSE i \in diff : \A j \in diff : i <= j
                      IN  x[k] > y[k])

\* a read that has not returned yet (data: undefined)
Undefined == <<>>

\* variant of maxAmount: the allowance a 0.02 USDC deposit needs
ExactAmount == ToU256(20000)

(* maxAmount, part_000 887:                                                *)
(* BigInt('0xffffffffffffffffffffffffffffffffffffffffffffffffffffffffffffffff') *)
maxAmount == [i \in 1..64 |-> 15]


(***************************************************************************)
(* The connected wallet and the chain registry.                            *)
(***************************************************************************)
\* useAccount().address of the connected wallet
address == "0xUser"

\* useAccount().chainId: Arbitrum Sepolia, the chain the vault is deployed on
chainId == 421614

\* variant of getContractAddress: an unknown chain gets the localhost vault
LocalhostByDefault(id) ==
  CASE id = 1        -> "0x87870Bca3F3fD6335C3F4ce8392D69350B4fA4E2"
    [] id = 84532    -> "0x773035EABdA16B5416B26E12156483C6B6F56451"
    [] id = 421614   -> "0xE168d95f8d1B8EC167A63c8E696076EC8EE95337"
    [] id = 11155420 -> "throw: AAVE Vault not yet deployed on Optimism Sepolia. Coming soon!"
    [] OTHER         -> "0x610178dA211FEF7D417bC0e6FeD39F05609AD788"

(* getContractAddress, part_000 185-206 (CONTRACT_ADDRESSES, 2-8) *)
getContractAddress(id) ==
  CASE id = 31337    -> "0x610178dA211FEF7D417bC0e6FeD39F05609AD788"
    [] id = 1        -> "0x87870Bca3F3fD6335C3F4ce8392D69350B4fA4E2"
    [] id = 84532    -> "0x773035EABdA16B5416B26E12156483C6B6F56451"
    [] id = 421614   -> "0xE168d95f8d1B8EC167A63c8E696076EC8EE95337"
    [] id = 11155420 -> "throw: AAVE Vault not yet deployed on Optimism Sepolia. Coming soon!"
    [] OTHER         -> "throw: Unsupported chain ID"

(* getUSDCAddress, part_000 209-224 (USDC_ADDRESSES, 11-17) *)
getUSDCAddress(id) ==
  CASE id = 31337    -> "0x16f18Ee01365Ef23E0564dfB635215A5B4Eaa3c4"
    [] id = 1        -> "0xA0b86a33E6441E43941295AaE15D29a6E6e98959"
    [] id = 84532    -> "0x036CbD53842c5426634e7929541eC2318f3dCF7e"
    [] id = 421614   -> "0x75faf114eafb1BDbe2F0316DF893fd58CE46AA4d"
    [] id = 11155420 -> "0x5fd84259d66Cd46123540766Be93DFE6D43130D7"
    [] OTHER         -> "throw: Unsupported chain ID"

(***************************************************************************)
(* Inputs of the flow: what the user types, what the wallet, the chain and *)
(* the oracle answer.                                                      *)
(***************************************************************************)
\* text typed into an amount field (before sanitizeAmountInput)
RawInputs ==
  { <<"0", ".", "0", "1">>,
    <<"0", ".", "0", "a", "3">>,
    <<"0">> }

\* allowance(owner, vault) on chain: none, 0.02 USDC, unlimited
AllowanceValues == {ZeroU256, ToU256(20000), maxAmount}

\* <<balanceOf(user), totalAssets(), totalSupply()>> of the vault, in 10^-6
\* USDC: no shares, shares of an empty vault, shares worth 1.5 each
VaultValues == { <<0, 0, 0>>, <<20000, 0, 0>>, <<20000, 30000, 20000>> }

(* Failure messages of a write, as the set of the words the handlers look  *)
(* for that the message contains.                                          *)
WriteErrors ==
  { {"user rejected", "rejected"},
    {"Internal JSON-RPC error"},
    {"cancelled"},
    {} }

(* Oracle answers (getDepositSignature): balance, nonce, deadline and      *)
(* assets are decimal strings.                                             *)
Snapshots ==
  { [balance |-> <<"0">>, nonce |-> <<"1">>, deadline |-> <<"9", "0">>,
     assets |-> <<"1">>, receiver |-> address, signature |-> "0xsigA"],
    [balance |-> <<"0", "0">>, nonce |-> <<"2">>, deadline |-> <<"9", "1">>,
     assets |-> <<"2">>, receiver |-> address, signature |-> "0xsigB"],
    [balance |-> <<"7">>, nonce |-> <<"3">>, deadline |-> <<"9", "2">>,
     assets |-> <<"3">>, receiver |-> "0xOther", signature |-> "0xsigC"] }

\* failures of the oracle request: Error.message mentions 'Oracle' or not
OracleErrors == {"Oracle unreachable", "Network request failed"}

(***************************************************************************)
(* State.                                                                  *)
(***************************************************************************)
VARIABLES
  \* BalanceFigma useState, part_000 536-543
  currentState, depositAmount, withdrawAmount, depositStep, withdrawStep,
  errorMessage, depositValidationError, withdrawValidationError,
  \* the mutation observed by each useWriteContract hook, with the receipt
  \* status of its hash (part_000 598-624)
  usdcTx, vaultTx,
  \* writes a hook no longer observes (reset or replaced) that the wallet or
  \* the chain has not settled yet
  orphans,
  \* suspended handleConfirmDeposit calls awaiting getDepositSignature
  oracleReqs,
  \* refetchAllowance().then(...) closures of the watcher effect
  rechecks,
  \* useReadContract data (part_000 636-642; part_002 390-418) and the
  \* on-chain allowance they read
  usdcAllowance, chainAllowance,
  userShareBalance, contractTotalAssets, contractTotalSupply,
  \* a refreshAllBalances call whose reads have not returned
  refreshInFlight,
  \* write requests made so far
  writes,
  \* the committed render has effects that have not run yet
  effectsPending,
  \* useAllocationData, part_002 138-247
  vaultDeployed, useMock, passes, allocations, totalValue,
  \* balanceResults of the pass that set allocations (part_002 170), in the
  \* order of CHAIN_CONFIGS; empty when no pass read the chains for them
  balanceResults,
  \* what the reads of that pass returned, before getVaultBalance's catch
  readOutcomes,
  \* userVaultValue of the last render of usePerformanceData
  reconOut,
  \* sharePrice of that render, and the Yield line of the withdraw view that
  \* BalanceFigma renders from it
  reconPrice, reconYield,
  \* the last address lookup of the chain registry and what it led to
  lookup,
  \* TransactionStatusProvider useState, TransactionStatusContext.tsx 69-70
  messages, persistedTransactions,
  \* localStorage item 'rebalancer_tx_history', parsed
  storage,
  \* Date.now(), in milliseconds since the first mount
  now,
  \* MessageStateProvider useState, MessageStateContext.tsx 75
  activeMessages,
  \* messages changed and the effect at MessageStateContext.tsx 191-229 has
  \* not run yet
  syncPending

flowVars ==
  << currentState, depositAmount, withdrawAmount, depositStep, withdrawStep,
     errorMessage, depositValidationError, withdrawValidationError,
     usdcTx, vaultTx, orphans, oracleReqs, rechecks,
     usdcAllowance, chainAllowance,
     userShareBalance, contractTotalAssets, contractTotalSupply,
     refreshInFlight, writes, effectsPending >>

allocVars ==
  << vaultDeployed, useMock, passes, allocations, totalValue, balanceResults,
     readOutcomes >>

reconVars == << reconOut, reconPrice, reconYield >>

registryVars == << lookup >>

statusVars ==
  << messages, persistedTransactions, storage, now, activeMessages,
     syncPending >>

vars == << flowVars, allocVars, reconVars, registryVars, statusVars >>

(***************************************************************************)
(* The write hooks.                                                        *)
(***************************************************************************)
\* a hook with no mutation (initially, and after reset())
NoTx == [st |-> "idle"]

\* isPending: the wallet has not answered
isPending(tx) == tx.st = "wallet"
\* data: the transaction hash
hasHash(tx) == tx.st \in {"submitted", "success", "reverted"}
\* error of the write
hasWriteError(tx) == tx.st = "error"
\* useWaitForTransactionReceipt({hash})
isTxLoading(tx) == tx.st = "submitted"
isTxSuccess(tx) == tx.st = "success"
isTxError(tx) == tx.st = "reverted"

\* a write the wallet or the chain has not settled
InFlight(tx) == tx.st \in {"wallet", "submitted"}

\* what a hook leaves behind when it stops observing its mutation: the write
\* goes on in the wallet or on chain, whatever it has reached there
Orphaned(tx) == IF InFlight(tx) THEN {[tx EXCEPT !.st = "orphan"]} ELSE {}

\* a new write request: mutate() puts the hook in 'pending' at once
NewTx(fn, to, args, ordered) ==
  [st |-> "wallet", fn |-> fn, to |-> to, args |-> args, err |-> {},
   landed |-> FALSE, ordered |-> ordered]

(***************************************************************************)
(* Messages shown in the error step.                                       *)
(***************************************************************************)
MsgInvalidAmount == "Please enter a valid amount"
MsgRejected == "Transaction was rejected. Please try again if you want to proceed."
MsgApprovalFalseNegative == "MetaMask reported an error, but this may be a false negative on testnets. Please check Arbiscan to verify, then try again. Consider using Rabby wallet."
MsgFalseNegative == "MetaMask reported an error, but this may be a false negative on testnets. Please check Arbiscan to verify your transaction. Consider using Rabby wallet."
MsgApprovalReverted == "USDC approval transaction reverted. Please try again."
MsgDepositReverted == "Deposit transaction reverted on-chain. Please try again."
MsgWithdrawReverted == "Withdrawal transaction reverted on-chain. Please try again."

\* the raw text of a failure, as far as the model tells texts apart
RawMessage(err) ==
  IF "Internal JSON-RPC error" \in err THEN "<Internal JSON-RPC error>"
  ELSE IF "cancelled" \in err THEN "<cancelled>"
  ELSE IF "rejected" \in err THEN "<user rejected>"
  ELSE "<message>"

(* isMetaMaskSimulationError, part_000 996-1000 *)
isMetaMaskSimulationError(err) ==
  "Internal JSON-RPC error" \in err \/ "-32603" \in err

(* isUserRejection of the watcher effect, part_000 1003-1010 *)
isUserRejection(err) ==
  \/ "user rejected" \in err
  \/ "rejected" \in err
  \/ "denied" \in err
  \/ "userrequestrejected" \in err

(* isUserRejection of the wallet-cancel effect, part_000 1139-1147 *)
isUserRejectionCancel(err) ==
  \/ "user rejected" \in err
  \/ "rejected" \in err
  \/ "denied" \in err
  \/ "cancelled" \in err
  \/ "canceled" \in err

(* getCleanErrorMessage, part_000 1150-1181 *)
getCleanErrorMessage(err, action) ==
  IF "insufficient funds" \in err THEN "Insufficient funds for gas fees."
  ELSE IF "SignatureExpired" \in err THEN "Signature expired. Please try again."
  ELSE IF "InvalidSignature" \in err THEN "Invalid signature from oracle. Please try again."
  ELSE IF "InvalidAmount" \in err THEN "Invalid amount. Please check your input."
  ELSE IF "reverted" \in err
       THEN CASE action = "Approval" -> "Approval failed: Transaction reverted. Please try again."
              [] action = "Deposit" -> "Deposit failed: Transaction reverted. Please try again."
              [] OTHER -> "Withdrawal failed: Transaction reverted. Please try again."
  ELSE RawMessage(err)


(***************************************************************************)
(* Values derived in a render.                                             *)
(***************************************************************************)
\* variant of hasEnoughAllowance: any allowance passes
AnyAllowanceEnough(allowance, amount) == TRUE

(* hasEnoughAllowance, part_000 693-701 *)
hasEnoughAllowance(allowance, amount) ==
  IF allowance = Undefined \/ allowance = ZeroU256
       \/ amount = <<>> \/ ~isValidAmount(amount)
  THEN FALSE
  ELSE GEu256(allowance, ToU256(parseUnits(amount)))

\* variant of userVaultValue: no 1:1 fallback for an empty vault
RatioOnly(shares, totalAssets, totalSupply) ==
  IF shares > 0 /\ totalAssets > 0 /\ totalSupply > 0
  THEN [num |-> shares * totalAssets, den |-> totalSupply]
  ELSE [num |-> 0, den |-> 1]

(* userVaultValue of usePerformanceData, part_002 590-608, as the fraction *)
(* num/den of 10^-6 USDC; the arguments are the raw reads (0 when the read *)
(* has not returned).                                                      *)
userVaultValue(shares, totalAssets, totalSupply) ==
  IF shares > 0 /\ totalAssets > 0 /\ totalSupply > 0
  THEN [num |-> shares * totalAssets, den |-> totalSupply]
  ELSE IF shares > 0
       THEN [num |-> shares, den |-> 1]
       ELSE [num |-> 0, den |-> 1]

(* sharePrice of usePerformanceData, part_002 597-603, as the fraction     *)
(* num/den: 1.0 unless the branch of the on-chain value is taken           *)
sharePrice(shares, totalAssets, totalSupply) ==
  IF shares > 0 /\ totalAssets > 0 /\ totalSupply > 0
  THEN [num |-> totalAssets, den |-> totalSupply]
  ELSE [num |-> 1, den |-> 1]

(* totalYield of renderWithdrawState, part_000 1595-1598:                  *)
(* Math.max(0, currentTotal - currentDeposits), where currentDeposits is   *)
(* the share count and currentTotal is userVaultValue                      *)
totalYield(shares, totalAssets, totalSupply) ==
  LET currentTotal == userVaultValue(shares, totalAssets, totalSupply)
      diff == currentTotal.num - shares * currentTotal.den
  IN  [num |-> IF diff > 0 THEN diff ELSE 0, den |-> currentTotal.den]

\* withdrawableAmount, part_000 1560
withdrawableAmount ==
  userVaultValue(userShareBalance, contractTotalAssets, contractTotalSupply)

\* isWithdrawAmountValid, part_000 1562
isWithdrawAmountValid(amount) == amount # <<>> /\ isValidAmount(amount)

\* variant of hasEnoughWithdrawBalance: the balance is not compared
AnyBalanceEnough(amount, w) == w.num > 0 /\ isValidAmount(amount)

\* hasEnoughWithdrawBalance, part_000 1563
hasEnoughWithdrawBalance(amount, w) ==
  /\ w.num > 0
  /\ isValidAmount(amount)
  /\ LET f == parseFloat(amount)
     IN  IF f.tail THEN f.micro * w.den < w.num ELSE f.micro * w.den <= w.num

\* canWithdraw, part_000 1564
canWithdraw ==
  /\ isWithdrawAmountValid(withdrawAmount)
  /\ hasEnoughWithdrawBalance(withdrawAmount, withdrawableAmount)
  /\ ~isPending(vaultTx)
  /\ withdrawValidationError = ""

DigitChar(d) ==
  CASE d = 0 -> "0" [] d = 1 -> "1" [] d = 2 -> "2" [] d = 3 -> "3"
    [] d = 4 -> "4" [] d = 5 -> "5" [] d = 6 -> "6" [] d = 7 -> "7"
    [] d = 8 -> "8" [] OTHER -> "9"

RECURSIVE NatDigits(_)
\* decimal digits of a natural number
NatDigits(n) ==
  IF n < 10 THEN <<DigitChar(n)>>
  ELSE NatDigits(n \div 10) \o <<DigitChar(n % 10)>>

Pow10(k) == IF k = 0 THEN 1 ELSE IF k = 1 THEN 10 ELSE IF k = 2 THEN 100
  ELSE IF k = 3 THEN 1000 ELSE IF k = 4 THEN 10000 ELSE 100000

\* Number.prototype.toFixed(6) of the fraction w (part_000 1665)
toFixed6(w) ==
  LET r == (2 * w.num + w.den) \div (2 * w.den)
  IN  NatDigits(r \div 1000000) \o <<".">>
        \o [i \in 1..6 |-> DigitChar((r \div Pow10(6 - i)) % 10)]

\* dependencies of the two effects, part_000 1135 and 1210
EffectDeps ==
  << usdcTx, vaultTx, depositStep, withdrawStep, depositAmount, withdrawAmount >>

(***************************************************************************)
(* Initial states.                                                         *)
(***************************************************************************)
FlowInit ==
  /\ currentState = "balance"
  /\ depositAmount = <<>>
  /\ withdrawAmount = <<>>
  /\ depositStep = "input"
  /\ withdrawStep = "input"
  /\ errorMessage = ""
  /\ depositValidationError = ""
  /\ withdrawValidationError = ""
  /\ usdcTx = NoTx
  /\ vaultTx = NoTx
  /\ orphans = {}
  /\ oracleReqs = <<>>
  /\ rechecks = <<>>
  /\ usdcAllowance = Undefined
  /\ chainAllowance \in AllowanceValues
  /\ userShareBalance = 0
  /\ contractTotalAssets = 0
  /\ contractTotalSupply = 0
  /\ refreshInFlight = FALSE
  /\ writes = 0
  /\ effectsPending = FALSE

\* the flow is not running (specifications of the other components)
FlowIdle ==
  /\ FlowInit
  /\ chainAllowance = ZeroU256


(***************************************************************************)
(* The flow: user events.  Every event is handled on a render whose        *)
(* effects have run (~effectsPending); the new render has effects to run   *)
(* when one of their dependencies changed.                                 *)
(***************************************************************************)
Commit ==
  /\ effectsPending' = (EffectDeps' # EffectDeps)
  /\ UNCHANGED << allocVars, reconVars, registryVars, statusVars >>

\* variant of ConfirmDepositEntry: the call returns at once
SkipEntry(amount) == "return"

(* handleConfirmDeposit up to its await, part_000 902-928, called on a     *)
(* render whose depositAmount is amount: "return", "invalid" or "go"       *)
ConfirmDepositEntry(amount) ==
  IF amount = <<>> THEN "return"
  ELSE IF ~isValidAmount(amount) THEN "invalid"
  ELSE "go"

(* the suspended call: the amount of its render, how it was reached (from  *)
(* the input step, an approval receipt or an allowance re-check) and       *)
(* whether the approval it depends on has taken effect on chain            *)
OracleRequest(amount, via, ordered) ==
  [amount |-> amount, via |-> via, ordered |-> ordered]

(* Deposit button of the balance view, part_000 801-805, 1271-1277 *)
HandleDeposit ==
  /\ ~effectsPending
  /\ currentState = "balance"
  /\ currentState' = "deposit"
  /\ depositStep' = "input"
  /\ depositAmount' = <<>>
  /\ UNCHANGED << withdrawAmount, withdrawStep, errorMessage,
                  depositValidationError, withdrawValidationError,
                  usdcTx, vaultTx, orphans, oracleReqs, rechecks,
                  usdcAllowance, chainAllowance, userShareBalance,
                  contractTotalAssets, contractTotalSupply, refreshInFlight >>
  /\ UNCHANGED writes
  /\ Commit

(* Withdraw button of the balance view, part_000 826-828, 1262-1270; it is *)
(* rendered when hasDeposits, which WelcomeProvider (part_003 65-70)       *)
(* derives from the same balanceOf read                                    *)
HandleWithdrawClick ==
  /\ ~effectsPending
  /\ currentState = "balance"
  /\ userShareBalance > 0
  /\ currentState' = "withdraw"
  /\ UNCHANGED << depositAmount, withdrawAmount, depositStep, withdrawStep,
                  errorMessage, depositValidationError,
                  withdrawValidationError,
                  usdcTx, vaultTx, orphans, oracleReqs, rechecks,
                  usdcAllowance, chainAllowance, userShareBalance,
                  contractTotalAssets, contractTotalSupply, refreshInFlight >>
  /\ UNCHANGED writes
  /\ Commit

(* onChange of the deposit amount field, part_000 1300-1305 *)
TypeDepositAmount(raw) ==
  /\ ~effectsPending
  /\ currentState = "deposit"
  /\ depositStep = "input"
  /\ depositAmount' = sanitizeAmountInput(raw)
  /\ depositValidationError' = ""
  /\ UNCHANGED << currentState, withdrawAmount, depositStep, withdrawStep,
                  errorMessage, withdrawValidationError,
                  usdcTx, vaultTx, orphans, oracleReqs, rechecks,
                  usdcAllowance, chainAllowance, userShareBalance,
                  contractTotalAssets, contractTotalSupply, refreshInFlight >>
  /\ UNCHANGED writes
  /\ Commit

(* onBlur of the deposit amount field, part_000 1306-1311 *)
BlurDepositAmount ==
  /\ ~effectsPending
  /\ currentState = "deposit"
  /\ depositStep = "input"
  /\ depositAmount # <<>>
  /\ ~isValidAmount(depositAmount)
  /\ depositValidationError' = MsgInvalidAmount
  /\ UNCHANGED << currentState, depositAmount, withdrawAmount, depositStep,
                  withdrawStep, errorMessage, withdrawValidationError,
                  usdcTx, vaultTx, orphans, oracleReqs, rechecks,
                  usdcAllowance, chainAllowance, userShareBalance,
                  contractTotalAssets, contractTotalSupply, refreshInFlight >>
  /\ UNCHANGED writes
  /\ Commit

(* Approve / Deposit button of the input step: handleInitiateDeposit,      *)
(* part_000 813-824, enabled as at 1336; it runs handleConfirmDeposit      *)
(* (902-928) or handleApproveUSDC (871-899)                                *)
HandleInitiateDeposit ==
  /\ ~effectsPending
  /\ currentState = "deposit"
  /\ depositStep = "input"
  /\ depositAmount # <<>>
  /\ isValidAmount(depositAmount)
  /\ depositValidationError = ""
  /\ IF hasEnoughAllowance(usdcAllowance, depositAmount)
     THEN /\ Len(oracleReqs) < MaxOracle
          /\ errorMessage' = ""
          /\ vaultTx' = NoTx
          /\ orphans' = orphans \cup Orphaned(vaultTx)
          /\ depositStep' = "depositing"
          /\ oracleReqs' =
               Append(oracleReqs, OracleRequest(depositAmount, "input", TRUE))
          /\ UNCHANGED << usdcTx, writes >>
     ELSE /\ writes < MaxWrites
          /\ writes' = writes + 1
          /\ errorMessage' = ""
          /\ orphans' = orphans \cup Orphaned(usdcTx)
          /\ depositStep' = "approving"
          /\ usdcTx' = NewTx("approve", getUSDCAddress(chainId),
                             <<getContractAddress(chainId), maxAmount>>, TRUE)
          /\ UNCHANGED << vaultTx, oracleReqs >>
  /\ UNCHANGED << currentState, depositAmount, withdrawAmount, withdrawStep,
                  depositValidationError, withdrawValidationError, rechecks,
                  usdcAllowance, chainAllowance, userShareBalance,
                  contractTotalAssets, contractTotalSupply, refreshInFlight >>
  /\ Commit

\* where the Cancel button (handleCancel) is rendered: part_000 1327-1332,
\* 1372-1377, 1538-1543, 1679-1685, 1842-1847
CancelShown ==
  \/ currentState = "deposit" /\ depositStep \in {"input", "approving", "error"}
  \/ currentState = "withdraw" /\ withdrawStep \in {"input", "error"}

\* variant of HandleCancel: it leaves like the Done buttons, without a refresh
CancelWithoutRefresh ==
  /\ ~effectsPending
  /\ CancelShown
  /\ currentState' = "balance"
  /\ depositStep' = "input"
  /\ withdrawStep' = "input"
  /\ depositAmount' = <<>>
  /\ withdrawAmount' = <<>>
  /\ errorMessage' = ""
  /\ depositValidationError' = ""
  /\ withdrawValidationError' = ""
  /\ UNCHANGED << usdcTx, vaultTx, orphans, oracleReqs, rechecks,
                  usdcAllowance, chainAllowance, userShareBalance,
                  contractTotalAssets, contractTotalSupply, refreshInFlight >>
  /\ UNCHANGED writes
  /\ Commit

(* handleCancel, part_000 830-841 *)
HandleCancel ==
  /\ ~effectsPending
  /\ CancelShown
  /\ currentState' = "balance"
  /\ depositStep' = "input"
  /\ withdrawStep' = "input"
  /\ depositAmount' = <<>>
  /\ withdrawAmount' = <<>>
  /\ errorMessage' = ""
  /\ depositValidationError' = ""
  /\ withdrawValidationError' = ""
  /\ refreshInFlight' = TRUE
  /\ UNCHANGED << usdcTx, vaultTx, orphans, oracleReqs, rechecks,
                  usdcAllowance, chainAllowance, userShareBalance,
                  contractTotalAssets, contractTotalSupply >>
  /\ UNCHANGED writes
  /\ Commit

(* Try Again of the deposit error step: handleRetry, part_000 843-846 *)
HandleRetry ==
  /\ ~effectsPending
  /\ currentState = "deposit"
  /\ depositStep = "error"
  /\ depositStep' = "input"
  /\ errorMessage' = ""
  /\ UNCHANGED << currentState, depositAmount, withdrawAmount, withdrawStep,
                  depositValidationError, withdrawValidationError,
                  usdcTx, vaultTx, orphans, oracleReqs, rechecks,
                  usdcAllowance, chainAllowance, userShareBalance,
                  contractTotalAssets, contractTotalSupply, refreshInFlight >>
  /\ UNCHANGED writes
  /\ Commit

(* Done of the deposit confirming step, part_000 1504-1509 *)
DepositDone ==
  /\ ~effectsPending
  /\ currentState = "deposit"
  /\ depositStep = "confirming"
  /\ currentState' = "balance"
  /\ depositStep' = "input"
  /\ depositAmount' = <<>>
  /\ UNCHANGED << withdrawAmount, withdrawStep, errorMessage,
                  depositValidationError, withdrawValidationError,
                  usdcTx, vaultTx, orphans, oracleReqs, rechecks,
                  usdcAllowance, chainAllowance, userShareBalance,
                  contractTotalAssets, contractTotalSupply, refreshInFlight >>
  /\ UNCHANGED writes
  /\ Commit


(* onChange of the withdraw amount field, part_000 1648-1653 *)
TypeWithdrawAmount(raw) ==
  /\ ~effectsPending
  /\ currentState = "withdraw"
  /\ withdrawStep = "input"
  /\ withdrawAmount' = sanitizeAmountInput(raw)
  /\ withdrawValidationError' = ""
  /\ UNCHANGED << currentState, depositAmount, depositStep, withdrawStep,
                  errorMessage, depositValidationError,
                  usdcTx, vaultTx, orphans, oracleReqs, rechecks,
                  usdcAllowance, chainAllowance, userShareBalance,
                  contractTotalAssets, contractTotalSupply, refreshInFlight >>
  /\ UNCHANGED writes
  /\ Commit

(* onBlur of the withdraw amount field, part_000 1654-1659 *)
BlurWithdrawAmount ==
  /\ ~effectsPending
  /\ currentState = "withdraw"
  /\ withdrawStep = "input"
  /\ withdrawAmount # <<>>
  /\ ~isValidAmount(withdrawAmount)
  /\ withdrawValidationError' = MsgInvalidAmount
  /\ UNCHANGED << currentState, depositAmount, withdrawAmount, depositStep,
                  withdrawStep, errorMessage, depositValidationError,
                  usdcTx, vaultTx, orphans, oracleReqs, rechecks,
                  usdcAllowance, chainAllowance, userShareBalance,
                  contractTotalAssets, contractTotalSupply, refreshInFlight >>
  /\ UNCHANGED writes
  /\ Commit

(* Max button, part_000 1662-1670 *)
WithdrawMax ==
  /\ ~effectsPending
  /\ currentState = "withdraw"
  /\ withdrawStep = "input"
  /\ withdrawAmount' = toFixed6(withdrawableAmount)
  /\ withdrawValidationError' = ""
  /\ UNCHANGED << currentState, depositAmount, depositStep, withdrawStep,
                  errorMessage, depositValidationError,
                  usdcTx, vaultTx, orphans, oracleReqs, rechecks,
                  usdcAllowance, chainAllowance, userShareBalance,
                  contractTotalAssets, contractTotalSupply, refreshInFlight >>
  /\ UNCHANGED writes
  /\ Commit

(* Confirm button of the withdraw input step: handleWithdraw, part_000     *)
(* 1567-1590, enabled as at 1690                                           *)
HandleWithdraw ==
  /\ ~effectsPending
  /\ currentState = "withdraw"
  /\ withdrawStep = "input"
  /\ withdrawAmount # <<>>
  /\ canWithdraw
  /\ writes < MaxWrites
  /\ writes' = writes + 1
  /\ withdrawStep' = "withdrawing"
  /\ orphans' = orphans \cup Orphaned(vaultTx)
  /\ vaultTx' = NewTx("withdraw", getContractAddress(chainId),
                      <<parseUnits(withdrawAmount), address, address>>, TRUE)
  /\ UNCHANGED << currentState, depositAmount, withdrawAmount, depositStep,
                  errorMessage, depositValidationError,
                  withdrawValidationError, usdcTx, oracleReqs, rechecks,
                  usdcAllowance, chainAllowance, userShareBalance,
                  contractTotalAssets, contractTotalSupply, refreshInFlight >>
  /\ Commit

(* Done of the withdraw confirming step, part_000 1811-1816 *)
WithdrawDone ==
  /\ ~effectsPending
  /\ currentState = "withdraw"
  /\ withdrawStep = "confirming"
  /\ currentState' = "balance"
  /\ withdrawStep' = "input"
  /\ withdrawAmount' = <<>>
  /\ UNCHANGED << depositAmount, depositStep, errorMessage,
                  depositValidationError, withdrawValidationError,
                  usdcTx, vaultTx, orphans, oracleReqs, rechecks,
                  usdcAllowance, chainAllowance, userShareBalance,
                  contractTotalAssets, contractTotalSupply, refreshInFlight >>
  /\ UNCHANGED writes
  /\ Commit

(* Try Again of the withdraw error step, part_000 1848-1853 *)
WithdrawTryAgain ==
  /\ ~effectsPending
  /\ currentState = "withdraw"
  /\ withdrawStep = "error"
  /\ withdrawStep' = "input"
  /\ UNCHANGED << currentState, depositAmount, withdrawAmount, depositStep,
                  errorMessage, depositValidationError,
                  withdrawValidationError,
                  usdcTx, vaultTx, orphans, oracleReqs, rechecks,
                  usdcAllowance, chainAllowance, userShareBalance,
                  contractTotalAssets, contractTotalSupply, refreshInFlight >>
  /\ UNCHANGED writes
  /\ Commit

(***************************************************************************)
(* The flow: the wallet, the chain, the oracle and the reads answer.       *)
(***************************************************************************)
\* the mutation and receipt state the hook h observes
HookTx(h) == IF h = "usdc" THEN usdcTx ELSE vaultTx

\* allowance(owner, vault) after the write tx has been executed
AllowanceAfter(tx, allowance) ==
  IF tx.fn = "approve" THEN tx.args[2] ELSE allowance

(* the wallet signs and broadcasts the request: the hook gets a hash and   *)
(* the receipt hook starts waiting (part_000 598-624)                      *)
WalletAccepts(h) ==
  /\ ~effectsPending
  /\ isPending(HookTx(h))
  /\ usdcTx' = IF h = "usdc" THEN [usdcTx EXCEPT !.st = "submitted"] ELSE usdcTx
  /\ vaultTx' = IF h = "vault" THEN [vaultTx EXCEPT !.st = "submitted"] ELSE vaultTx
  /\ UNCHANGED << currentState, depositAmount, withdrawAmount, depositStep,
                  withdrawStep, errorMessage, depositValidationError,
                  withdrawValidationError, orphans, oracleReqs, rechecks,
                  usdcAllowance, chainAllowance, userShareBalance,
                  contractTotalAssets, contractTotalSupply, refreshInFlight >>
  /\ UNCHANGED writes
  /\ Commit

(* the write fails in the wallet (user rejection, simulation error, other) *)
(* with message err.  A simulation error can be a false negative: landed   *)
(* tells whether the transaction was executed on chain all the same.       *)
WalletFails(h, err, landed) ==
  /\ ~effectsPending
  /\ isPending(HookTx(h))
  /\ landed => isMetaMaskSimulationError(err) /\ HookTx(h).fn = "approve"
  \* bound: the effect that follows has room for its re-check
  /\ (h = "usdc" /\ depositStep = "approving" /\ isMetaMaskSimulationError(err))
       => Len(rechecks) < MaxRechecks
  /\ usdcTx' = IF h = "usdc"
               THEN [usdcTx EXCEPT !.st = "error", !.err = err, !.landed = landed]
               ELSE usdcTx
  /\ vaultTx' = IF h = "vault"
                THEN [vaultTx EXCEPT !.st = "error", !.err = err, !.landed = landed]
                ELSE vaultTx
  /\ chainAllowance' = IF landed THEN AllowanceAfter(HookTx(h), chainAllowance)
                       ELSE chainAllowance
  /\ UNCHANGED << currentState, depositAmount, withdrawAmount, depositStep,
                  withdrawStep, errorMessage, depositValidationError,
                  withdrawValidationError, orphans, oracleReqs, rechecks,
                  usdcAllowance, userShareBalance,
                  contractTotalAssets, contractTotalSupply, refreshInFlight >>
  /\ UNCHANGED writes
  /\ Commit

(* the receipt of the hook's hash arrives: status success or reverted *)
ReceiptArrives(h, ok) ==
  /\ ~effectsPending
  /\ isTxLoading(HookTx(h))
  \* bound: the effect that follows has room for its oracle request
  /\ (h = "usdc" /\ depositStep = "approving" /\ ok)
       => Len(oracleReqs) < MaxOracle
  /\ usdcTx' = IF h = "usdc"
               THEN [usdcTx EXCEPT !.st = IF ok THEN "success" ELSE "reverted"]
               ELSE usdcTx
  /\ vaultTx' = IF h = "vault"
                THEN [vaultTx EXCEPT !.st = IF ok THEN "success" ELSE "reverted"]
                ELSE vaultTx
  /\ chainAllowance' = IF ok THEN AllowanceAfter(HookTx(h), chainAllowance)
                       ELSE chainAllowance
  /\ UNCHANGED << currentState, depositAmount, withdrawAmount, depositStep,
                  withdrawStep, errorMessage, depositValidationError,
                  withdrawValidationError, orphans, oracleReqs, rechecks,
                  usdcAllowance, userShareBalance,
                  contractTotalAssets, contractTotalSupply, refreshInFlight >>
  /\ UNCHANGED writes
  /\ Commit

(* a write no hook observes any more is settled by the wallet or the chain *)
OrphanSettles(tx, ok) ==
  /\ ~effectsPending
  /\ tx \in orphans
  /\ orphans' = orphans \ {tx}
  /\ chainAllowance' = IF ok THEN AllowanceAfter(tx, chainAllowance)
                       ELSE chainAllowance
  /\ UNCHANGED << currentState, depositAmount, withdrawAmount, depositStep,
                  withdrawStep, errorMessage, depositValidationError,
                  withdrawValidationError, usdcTx, vaultTx, oracleReqs,
                  rechecks, usdcAllowance, userShareBalance,
                  contractTotalAssets, contractTotalSupply, refreshInFlight >>
  /\ UNCHANGED writes
  /\ Commit


RemoveAt(q, i) == SubSeq(q, 1, i - 1) \o SubSeq(q, i + 1, Len(q))

\* variant of DepositWrite: the plain deposit whatever the snapshot
PlainDepositWrite(req, snapshot) ==
  NewTx("deposit", getContractAddress(chainId),
        <<parseUnits(req.amount), address>>, req.ordered)

\* the vault write chosen by the snapshot, part_000 932-975
DepositWrite(req, snapshot) ==
  IF snapshot.balance = <<"0">> \/ DecVal(snapshot.balance) = 0
  THEN NewTx("deposit", getContractAddress(chainId),
             <<parseUnits(req.amount), address>>, req.ordered)
  ELSE NewTx("depositWithExtraInfoViaSignature", getContractAddress(chainId),
             <<parseUnits(req.amount), address,
               [balance |-> DecVal(snapshot.balance),
                nonce |-> DecVal(snapshot.nonce),
                deadline |-> DecVal(snapshot.deadline),
                assets |-> DecVal(snapshot.assets),
                receiver |-> snapshot.receiver],
               snapshot.signature>>, req.ordered)

(* getDepositSignature resolves: the suspended handleConfirmDeposit call i *)
(* continues at part_000 929-975                                           *)
OracleResponds(i, snapshot) ==
  /\ ~effectsPending
  /\ i \in 1..Len(oracleReqs)
  /\ writes < MaxWrites
  /\ writes' = writes + 1
  /\ vaultTx' = DepositWrite(oracleReqs[i], snapshot)
  /\ orphans' = orphans \cup Orphaned(vaultTx)
  /\ oracleReqs' = RemoveAt(oracleReqs, i)
  /\ UNCHANGED << currentState, depositAmount, withdrawAmount, depositStep,
                  withdrawStep, errorMessage, depositValidationError,
                  withdrawValidationError, usdcTx, rechecks,
                  usdcAllowance, chainAllowance, userShareBalance,
                  contractTotalAssets, contractTotalSupply, refreshInFlight >>
  /\ Commit

\* variant of OracleFails: the rejection is not caught
OracleFailsUncaught(i, message) ==
  /\ ~effectsPending
  /\ i \in 1..Len(oracleReqs)
  /\ oracleReqs' = RemoveAt(oracleReqs, i)
  /\ UNCHANGED << currentState, depositAmount, withdrawAmount, depositStep,
                  withdrawStep, errorMessage, depositValidationError,
                  withdrawValidationError, usdcTx, vaultTx, orphans, rechecks,
                  usdcAllowance, chainAllowance, userShareBalance,
                  contractTotalAssets, contractTotalSupply, refreshInFlight,
                  writes >>
  /\ Commit

(* getDepositSignature rejects: the catch of call i, part_000 977-990 *)
OracleFails(i, message) ==
  /\ ~effectsPending
  /\ i \in 1..Len(oracleReqs)
  /\ oracleReqs' = RemoveAt(oracleReqs, i)
  /\ depositStep' = "error"
  /\ errorMessage' = IF message = "Oracle unreachable"
                     THEN "Oracle service error: " \o message
                     ELSE "Deposit failed: " \o message
  /\ UNCHANGED << currentState, depositAmount, withdrawAmount, withdrawStep,
                  depositValidationError, withdrawValidationError,
                  usdcTx, vaultTx, orphans, rechecks,
                  usdcAllowance, chainAllowance, userShareBalance,
                  contractTotalAssets, contractTotalSupply, refreshInFlight >>
  /\ UNCHANGED writes
  /\ Commit

\* the failed approval of re-check r was executed all the same, or the
\* allowance on chain covers its amount anyway
ApprovalTookEffect(r) ==
  r.landed \/ GEu256(chainAllowance, ToU256(parseUnits(r.amount)))

(* refetchAllowance() of the watcher effect resolves: the .then callback   *)
(* of re-check i, part_000 1074-1088, with handleConfirmDeposit (902-928)  *)
(* of the render that started the re-check                                 *)
RecheckResolves(i) ==
  /\ ~effectsPending
  /\ i \in 1..Len(rechecks)
  /\ rechecks' = RemoveAt(rechecks, i)
  /\ usdcAllowance' = chainAllowance
  /\ IF chainAllowance # ZeroU256
     THEN CASE ConfirmDepositEntry(rechecks[i].amount) = "go" ->
                 /\ Len(oracleReqs) < MaxOracle
                 /\ errorMessage' = ""
                 /\ vaultTx' = NoTx
                 /\ orphans' = orphans \cup Orphaned(vaultTx)
                 /\ depositStep' = "depositing"
                 /\ oracleReqs' =
                      Append(oracleReqs,
                             OracleRequest(rechecks[i].amount, "recheck",
                                           ApprovalTookEffect(rechecks[i])))
                 /\ UNCHANGED depositValidationError
            [] ConfirmDepositEntry(rechecks[i].amount) = "invalid" ->
                 /\ depositValidationError' = MsgInvalidAmount
                 /\ UNCHANGED << errorMessage, vaultTx, orphans, depositStep,
                                 oracleReqs >>
            [] OTHER ->
                 UNCHANGED << errorMessage, vaultTx, orphans, depositStep,
                              oracleReqs, depositValidationError >>
     ELSE /\ depositStep' = "error"
          /\ errorMessage' = MsgApprovalFalseNegative
          /\ UNCHANGED << vaultTx, orphans, oracleReqs, depositValidationError >>
  /\ UNCHANGED << currentState, depositAmount, withdrawAmount, withdrawStep,
                  withdrawValidationError, usdcTx, chainAllowance,
                  userShareBalance, contractTotalAssets, contractTotalSupply,
                  refreshInFlight >>
  /\ UNCHANGED writes
  /\ Commit

(* the allowance read returns (first load, refetchAllowance at 1017) *)
AllowanceReadArrives ==
  /\ ~effectsPending
  /\ usdcAllowance # chainAllowance
  /\ usdcAllowance' = chainAllowance
  /\ UNCHANGED << currentState, depositAmount, withdrawAmount, depositStep,
                  withdrawStep, errorMessage, depositValidationError,
                  withdrawValidationError, usdcTx, vaultTx, orphans,
                  oracleReqs, rechecks, chainAllowance, userShareBalance,
                  contractTotalAssets, contractTotalSupply, refreshInFlight >>
  /\ UNCHANGED writes
  /\ Commit

(* the vault reads of usePerformanceData return (part_002 390-418): the    *)
(* chain holds any of the modelled values                                  *)
VaultReadsArrive(v) ==
  /\ ~effectsPending
  /\ v # << userShareBalance, contractTotalAssets, contractTotalSupply >>
  /\ userShareBalance' = v[1]
  /\ contractTotalAssets' = v[2]
  /\ contractTotalSupply' = v[3]
  /\ UNCHANGED << currentState, depositAmount, withdrawAmount, depositStep,
                  withdrawStep, errorMessage, depositValidationError,
                  withdrawValidationError, usdcTx, vaultTx, orphans,
                  oracleReqs, rechecks, usdcAllowance, chainAllowance,
                  refreshInFlight >>
  /\ UNCHANGED writes
  /\ Commit

(* the reads of a refreshAllBalances call return, part_000 854-868 *)
RefreshCompletes(v) ==
  /\ ~effectsPending
  /\ refreshInFlight
  /\ refreshInFlight' = FALSE
  /\ usdcAllowance' = chainAllowance
  /\ userShareBalance' = v[1]
  /\ contractTotalAssets' = v[2]
  /\ contractTotalSupply' = v[3]
  /\ UNCHANGED << currentState, depositAmount, withdrawAmount, depositStep,
                  withdrawStep, errorMessage, depositValidationError,
                  withdrawValidationError, usdcTx, vaultTx, orphans,
                  oracleReqs, rechecks, chainAllowance >>
  /\ UNCHANGED writes
  /\ Commit


(***************************************************************************)
(* The flow: the effects of the committed render.  Both effects read the   *)
(* values of that render; their state updates are applied in call order,   *)
(* so for each variable the last call wins.                                *)
(***************************************************************************)
\* variant of RefreshOnSuccess: a confirmation refreshes nothing
NoRefreshOnSuccess(deposited, withdrawn) == FALSE

\* refreshAllBalances() of the two success handlers, part_000 1025 and 1037
RefreshOnSuccess(deposited, withdrawn) == deposited \/ withdrawn

\* the allowance re-check started at part_000 1074, with the render's amount
Recheck(amount, landed) == [amount |-> amount, landed |-> landed]

(* watcher effect, part_000 994-1135, then wallet-cancel effect, 1138-1210 *)
RunEffects ==
  LET uErr == IF hasWriteError(usdcTx) THEN usdcTx.err ELSE {}
      vErr == IF hasWriteError(vaultTx) THEN vaultTx.err ELSE {}
      \* 1013-1018
      approved == isTxSuccess(usdcTx) /\ depositStep = "approving"
      entry == ConfirmDepositEntry(depositAmount)
      go == approved /\ entry = "go"
      \* 1020-1026, 1028-1038
      deposited == isTxSuccess(vaultTx) /\ depositStep \in {"depositing", "error"}
      withdrawn == isTxSuccess(vaultTx) /\ withdrawStep \in {"withdrawing", "error"}
      \* 1041-1059
      approveReverted == isTxError(usdcTx) /\ depositStep = "approving"
      depositReverted == isTxError(vaultTx) /\ depositStep = "depositing"
      withdrawReverted == isTxError(vaultTx) /\ withdrawStep = "withdrawing"
      \* 1062-1092
      approveFailed == hasWriteError(usdcTx) /\ depositStep = "approving"
      recheck == approveFailed /\ ~isUserRejection(uErr)
                   /\ isMetaMaskSimulationError(uErr)
      \* 1094-1133, not reached after the return at 1089
      depositFailed == hasWriteError(vaultTx) /\ depositStep = "depositing"
      withdrawFailed == hasWriteError(vaultTx) /\ withdrawStep = "withdrawing"
      depositFailed1 == depositFailed /\ ~recheck
      withdrawFailed1 == withdrawFailed /\ ~recheck
      simulation1 == ~isUserRejection(vErr) /\ isMetaMaskSimulationError(vErr)
      Message1(err, prefix) ==
        IF isUserRejection(err) THEN MsgRejected
        ELSE IF isMetaMaskSimulationError(err) THEN MsgFalseNegative
        ELSE prefix \o RawMessage(err)
      \* 1183-1209
      Message2(err, cancelled, action) ==
        IF isUserRejectionCancel(err) THEN cancelled
        ELSE getCleanErrorMessage(err, action)
  IN
  /\ effectsPending
  /\ go => Len(oracleReqs) < MaxOracle
  /\ recheck => Len(rechecks) < MaxRechecks
  /\ depositStep' =
       IF approveFailed \/ depositFailed THEN "error"
       ELSE IF approveReverted \/ depositReverted THEN "error"
       ELSE IF deposited THEN "confirming"
       ELSE IF go THEN "depositing"
       ELSE depositStep
  /\ withdrawStep' =
       IF withdrawFailed THEN "error"
       ELSE IF withdrawReverted THEN "error"
       ELSE IF withdrawn THEN "confirming"
       ELSE withdrawStep
  /\ errorMessage' =
       IF withdrawFailed
         THEN Message2(vErr, "Withdrawal was cancelled in wallet.", "Withdrawal")
       ELSE IF depositFailed
         THEN Message2(vErr, "Deposit was cancelled in wallet.", "Deposit")
       ELSE IF approveFailed
         THEN Message2(uErr, "Approval was cancelled in wallet.", "Approval")
       ELSE IF withdrawFailed1 THEN Message1(vErr, "Withdrawal failed: ")
       ELSE IF depositFailed1 THEN Message1(vErr, "Deposit failed: ")
       ELSE IF approveFailed /\ ~recheck THEN Message1(uErr, "Approval failed: ")
       ELSE IF withdrawReverted THEN MsgWithdrawReverted
       ELSE IF depositReverted THEN MsgDepositReverted
       ELSE IF approveReverted THEN MsgApprovalReverted
       ELSE IF go THEN ""
       ELSE errorMessage
  /\ depositValidationError' =
       IF approved /\ entry = "invalid" THEN MsgInvalidAmount
       ELSE depositValidationError
  /\ vaultTx' = IF go THEN NoTx ELSE vaultTx
  /\ orphans' = IF go THEN orphans \cup Orphaned(vaultTx) ELSE orphans
  /\ oracleReqs' =
       IF go THEN Append(oracleReqs, OracleRequest(depositAmount, "receipt", TRUE))
       ELSE oracleReqs
  /\ rechecks' =
       IF recheck THEN Append(rechecks, Recheck(depositAmount, usdcTx.landed))
       ELSE rechecks
  /\ refreshInFlight' =
       \/ refreshInFlight
       \/ RefreshOnSuccess(deposited, withdrawn)
       \/ (depositFailed1 /\ simulation1)
       \/ (withdrawFailed1 /\ simulation1)
  /\ UNCHANGED << currentState, depositAmount, withdrawAmount,
                  withdrawValidationError, usdcTx,
                  usdcAllowance, chainAllowance, userShareBalance,
                  contractTotalAssets, contractTotalSupply >>
  /\ UNCHANGED writes
  /\ Commit

(***************************************************************************)
(* The flow as a specification.                                            *)
(***************************************************************************)
\* the vault reads of a user who holds no shares
NoShares == << 0, 0, 0 >>

(* the deposit flow of a user who holds no shares, and so is not offered   *)
(* the Withdraw button                                                     *)
DepositNext ==
  \/ HandleDeposit
  \/ \E raw \in RawInputs : TypeDepositAmount(raw)
  \/ BlurDepositAmount
  \/ HandleInitiateDeposit
  \/ HandleCancel
  \/ HandleRetry
  \/ DepositDone
  \/ \E h \in {"usdc", "vault"} : WalletAccepts(h)
  \/ \E h \in {"usdc", "vault"}, err \in WriteErrors, landed \in BOOLEAN :
       WalletFails(h, err, landed)
  \/ \E h \in {"usdc", "vault"}, ok \in BOOLEAN : ReceiptArrives(h, ok)
  \/ \E tx \in orphans, ok \in BOOLEAN : OrphanSettles(tx, ok)
  \/ \E i \in 1..MaxOracle, snapshot \in Snapshots : OracleResponds(i, snapshot)
  \/ \E i \in 1..MaxOracle, message \in OracleErrors : OracleFails(i, message)
  \/ \E i \in 1..MaxRechecks : RecheckResolves(i)
  \/ AllowanceReadArrives
  \/ RefreshCompletes(NoShares)
  \/ RunEffects

(* the withdraw flow of a user who does not open the deposit view *)
WithdrawNext ==
  \/ HandleWithdrawClick
  \/ \E raw \in RawInputs : TypeWithdrawAmount(raw)
  \/ BlurWithdrawAmount
  \/ WithdrawMax
  \/ HandleWithdraw
  \/ HandleCancel
  \/ WithdrawDone
  \/ WithdrawTryAgain
  \/ WalletAccepts("vault")
  \/ \E err \in WriteErrors : WalletFails("vault", err, FALSE)
  \/ \E ok \in BOOLEAN : ReceiptArrives("vault", ok)
  \/ \E v \in VaultValues : VaultReadsArrive(v)
  \/ \E v \in VaultValues : RefreshCompletes(v)
  \/ RunEffects

\* both flows
FlowNext == DepositNext \/ WithdrawNext

\* the allocation hook has not mounted
AllocIdle ==
  /\ vaultDeployed = {}
  /\ useMock = FALSE
  /\ passes = <<>>
  /\ allocations = <<>>
  /\ totalValue = << 0, 0 >>
  /\ balanceResults = <<>>
  /\ readOutcomes = <<>>

\* the reconciler has not been evaluated
ReconIdle ==
  /\ reconOut = [num |-> 0, den |-> 1]
  /\ reconPrice = [num |-> 1, den |-> 1]
  /\ reconYield = [num |-> 0, den |-> 1]

\* no address has been looked up
RegistryIdle ==
  lookup = [fn |-> "none", id |-> 0, out |-> "", read |-> FALSE]

\* no status message was issued, nothing is stored
StatusIdle ==
  /\ messages = <<>>
  /\ persistedTransactions = <<>>
  /\ storage = <<>>
  /\ now = 0
  /\ activeMessages = <<>>
  /\ syncPending = FALSE

Init == FlowInit /\ AllocIdle /\ ReconIdle /\ RegistryIdle /\ StatusIdle

Next == DepositNext

Spec == Init /\ [][Next]_vars

SpecWithdraw == Init /\ [][WithdrawNext]_vars

SpecFlow == Init /\ [][FlowNext]_vars


(***************************************************************************)
(* Properties of the deposit flow.                                         *)
(***************************************************************************)
IsDepositWrite(tx) ==
  tx.fn \in {"deposit", "depositWithExtraInfoViaSignature"}

\* the deposit writes made and not forgotten: the vault hook's, the orphans
DepositWrites ==
  {tx \in orphans \cup ({vaultTx} \ {NoTx}) : IsDepositWrite(tx)}

\* how many deposit writes of amount are with the wallet or the chain
DepositsInFlight(amount) ==
  Cardinality({tx \in orphans : IsDepositWrite(tx) /\ tx.args[1] = amount})
    + (IF InFlight(vaultTx) /\ IsDepositWrite(vaultTx)
            /\ vaultTx.args[1] = amount
       THEN 1 ELSE 0)

(* The Confirm button of the approving step (part_000 1378-1389) is        *)
(* disabled while isUSDCPending || isUSDCTxLoading; in every render in     *)
(* which a click can be handled that is the case, so the button is never   *)
(* an event of the flow.                                                   *)
ApprovingConfirmDisabled ==
  (depositStep = "approving" /\ ~effectsPending)
    => (isPending(usdcTx) \/ isTxLoading(usdcTx))

(* C1: a deposit write (deposit or depositWithExtraInfoViaSignature) is    *)
(* submitted only when the attempt needed no approval, or after its        *)
(* approval transaction has confirmed on chain (a success receipt, or a    *)
(* failed write that the chain shows to have taken effect).                *)
C1_DepositOnlyAfterApproval ==
  \A tx \in DepositWrites : tx.ordered

(* C2: at most one deposit write of an attempt is pending or in flight: no *)
(* two deposit writes for the same amount are with the wallet or the chain *)
(* at the same time.                                                       *)
C2_OneDepositWriteInFlight ==
  \A tx \in DepositWrites : DepositsInFlight(tx.args[1]) <= 1

(* C5: when the oracle request of a deposit attempt fails, the step        *)
(* becomes 'error' and no write is submitted.                              *)
C5_OracleFailureAborts ==
  [][\A i \in 1..MaxOracle, message \in OracleErrors :
       OracleFails(i, message)
         => /\ depositStep' = "error"
            /\ writes' = writes
            /\ vaultTx' = vaultTx
            /\ usdcTx' = usdcTx
            /\ orphans' = orphans]_vars

\* the error step after an oracle failure
C5_Witness ==
  /\ depositStep = "error"
  /\ errorMessage = "Oracle service error: Oracle unreachable"
  /\ writes = 0

\* the balance string denotes zero
AttestsZero(snapshot) ==
  \A k \in 1..Len(snapshot.balance) : snapshot.balance[k] = "0"

(* C6: when the oracle answers, exactly one write is submitted: the plain  *)
(* deposit(amount, receiver) when the attested balance is zero, otherwise  *)
(* depositWithExtraInfoViaSignature with the snapshot's balance, nonce,    *)
(* deadline, assets, receiver and signature as received.                   *)
C6_ProtocolBySnapshot ==
  [][\A i \in 1..MaxOracle, snapshot \in Snapshots :
       OracleResponds(i, snapshot)
         => /\ writes' = writes + 1
            /\ isPending(vaultTx')
            /\ vaultTx'.to = getContractAddress(chainId)
            /\ vaultTx'.args[1] = parseUnits(oracleReqs[i].amount)
            /\ vaultTx'.args[2] = address
            /\ IF AttestsZero(snapshot)
               THEN /\ vaultTx'.fn = "deposit"
                    /\ Len(vaultTx'.args) = 2
               ELSE /\ vaultTx'.fn = "depositWithExtraInfoViaSignature"
                    /\ Len(vaultTx'.args) = 4
                    /\ NatDigits(vaultTx'.args[3].balance) = snapshot.balance
                    /\ NatDigits(vaultTx'.args[3].nonce) = snapshot.nonce
                    /\ NatDigits(vaultTx'.args[3].deadline) = snapshot.deadline
                    /\ NatDigits(vaultTx'.args[3].assets) = snapshot.assets
                    /\ vaultTx'.args[3].receiver = snapshot.receiver
                    /\ vaultTx'.args[4] = snapshot.signature]_vars

\* the deposit-with-snapshot variant waits in the wallet
C6_Witness ==
  /\ isPending(vaultTx)
  /\ vaultTx.fn = "depositWithExtraInfoViaSignature"
  /\ vaultTx.args[3].balance = 7


\* the allowance read covers the amount typed (no read counts as none)
AllowanceCovers(allowance, amount) ==
  /\ allowance # Undefined
  /\ GEu256(allowance, ToU256(parseFloat(amount).micro))

(* C7: from 'input', the approval is submitted and the step becomes        *)
(* 'approving' exactly when the allowance read is below the amount;        *)
(* otherwise the step becomes 'depositing' and no approval is written.     *)
C7_ApprovalIffAllowanceBelow ==
  [][HandleInitiateDeposit
       => IF AllowanceCovers(usdcAllowance, depositAmount)
          THEN /\ depositStep' = "depositing"
               /\ usdcTx' = usdcTx
               /\ writes' = writes
          ELSE /\ depositStep' = "approving"
               /\ isPending(usdcTx')
               /\ usdcTx'.fn = "approve"
               /\ writes' = writes + 1
               /\ oracleReqs' = oracleReqs]_vars

\* the deposit went to 'depositing' with no approval written
C7_Witness ==
  /\ depositStep = "depositing"
  /\ writes = 0
  /\ usdcTx = NoTx
  /\ AllowanceCovers(usdcAllowance, depositAmount)

(* C8: when the allowance re-read after a false-negative approval failure  *)
(* shows at least the requested amount, the step becomes 'depositing'      *)
(* with no user event, and the error of the failed write is cleared.       *)
C8_FalseNegativeProceeds ==
  [][\A i \in 1..MaxRechecks :
       (/\ RecheckResolves(i)
        /\ GEu256(chainAllowance, ToU256(parseFloat(rechecks[i].amount).micro)))
         => /\ depositStep' = "depositing"
            /\ errorMessage' = ""
            /\ Len(oracleReqs') = Len(oracleReqs) + 1]_vars

\* 'depositing' reached from the re-check of a failed approval
C8_Witness ==
  /\ depositStep = "depositing"
  /\ hasWriteError(usdcTx)
  /\ isMetaMaskSimulationError(usdcTx.err)
  /\ \E k \in 1..Len(oracleReqs) :
       /\ oracleReqs[k].via = "recheck"
       /\ GEu256(chainAllowance, ToU256(parseUnits(oracleReqs[k].amount)))


(***************************************************************************)
(* Properties of the withdraw flow (SpecWithdraw).                         *)
(***************************************************************************)
\* the step submits a withdraw write
WithdrawSubmitted ==
  /\ vaultTx' # vaultTx
  /\ isPending(vaultTx')
  /\ vaultTx'.fn = "withdraw"

\* the reconciled deposited value as the fraction num/den of 10^-6 USDC
DepositedValue ==
  IF contractTotalAssets > 0 /\ contractTotalSupply > 0
  THEN [num |-> userShareBalance * contractTotalAssets,
        den |-> contractTotalSupply]
  ELSE [num |-> userShareBalance, den |-> 1]

(* C9: a withdraw write is submitted only when the amount typed is a valid *)
(* positive amount not above the reconciled deposited value; it is one     *)
(* withdraw(amount, receiver, owner) with receiver = owner = address.      *)
C9_WithdrawWithinDepositedValue ==
  [][WithdrawSubmitted
       => /\ withdrawAmount # <<>>
          /\ ~parseFloat(withdrawAmount).nan
          /\ parseFloat(withdrawAmount).micro > 0
          /\ parseFloat(withdrawAmount).micro * DepositedValue.den
               <= DepositedValue.num
          /\ writes' = writes + 1
          /\ vaultTx'.to = getContractAddress(chainId)
          /\ vaultTx'.args
               = << parseFloat(withdrawAmount).micro, address, address >>]_vars

\* a withdrawal of the whole deposited value waits in the wallet
C9_Witness ==
  /\ withdrawStep = "withdrawing"
  /\ isPending(vaultTx)
  /\ vaultTx.fn = "withdraw"
  /\ vaultTx.args[1] * DepositedValue.den = DepositedValue.num


(***************************************************************************)
(* The reconciler on its own (SpecReconcile): usePerformanceData renders   *)
(* with any reads.                                                         *)
(***************************************************************************)
\* raw reads of balanceOf(user), totalAssets() and totalSupply()
ReconShares == {0, 1, 100, 250, 400}
ReconAssets == {0, 1, 150, 400, 900}
ReconSupply == {0, 1, 100, 400, 600}

(* the three reads return and the hook renders, part_002 590-608 *)
Reconcile(shares, totalAssets, totalSupply) ==
  /\ userShareBalance' = shares
  /\ contractTotalAssets' = totalAssets
  /\ contractTotalSupply' = totalSupply
  /\ reconOut' = userVaultValue(shares, totalAssets, totalSupply)
  /\ reconPrice' = sharePrice(shares, totalAssets, totalSupply)
  /\ reconYield' = totalYield(shares, totalAssets, totalSupply)
  /\ UNCHANGED << currentState, depositAmount, withdrawAmount, depositStep,
                  withdrawStep, errorMessage, depositValidationError,
                  withdrawValidationError, usdcTx, vaultTx, orphans,
                  oracleReqs, rechecks, usdcAllowance, chainAllowance,
                  refreshInFlight, writes, effectsPending >>
  /\ UNCHANGED << allocVars, registryVars, statusVars >>

ReconcileNext ==
  \E s \in ReconShares, ta \in ReconAssets, ts \in ReconSupply :
    Reconcile(s, ta, ts)

InitReconcile == FlowIdle /\ AllocIdle /\ ReconIdle /\ RegistryIdle /\ StatusIdle

SpecReconcile == InitReconcile /\ [][ReconcileNext]_vars

(* C10: the reconciled deposited value is shares * totalAssets /           *)
(* totalSupply when totalAssets and totalSupply are both positive, and     *)
(* shares otherwise; so it is 0 for shares = 0, and 100 for shares = 100   *)
(* with totalAssets = totalSupply = 0.                                     *)
C10_ReconciledValue ==
  /\ IF contractTotalAssets > 0 /\ contractTotalSupply > 0
     THEN reconOut.num * contractTotalSupply
            = userShareBalance * contractTotalAssets * reconOut.den
     ELSE reconOut.num = userShareBalance * reconOut.den
  /\ reconOut.den > 0
  /\ userShareBalance = 0 => reconOut.num = 0
  /\ (userShareBalance = 100 /\ contractTotalAssets = 0
        /\ contractTotalSupply = 0) => reconOut.num = 100 * reconOut.den

\* the 1:1 fallback: 100 shares of a vault that reports no assets
C10_Witness ==
  /\ userShareBalance = 100
  /\ contractTotalAssets = 0
  /\ contractTotalSupply = 0
  /\ reconOut = [num |-> 100, den |-> 1]


(***************************************************************************)
(* The allocation view (SpecAllocation): useAllocationData.                *)
(***************************************************************************)
\* names of CHAIN_CONFIGS in order, part_002 27-56
Networks ==
  << "Arbitrum Sepolia", "Base Sepolia", "Optimism Sepolia", "Ethereum Sepolia" >>

NetworkNames == {Networks[k] : k \in 1..Len(Networks)}

\* totalAssets() a vault can report, in 10^-6 USDC
BalanceValues == {0, 1, 999}

\* the outcome of a read that throws (the catch of getVaultBalance)
ReadFailed == -1

\* variant of getVaultBalance: the outcome of a failed read is passed on
FailedReadKept(deployed, read) ==
  IF ~deployed THEN 0 ELSE read

(* getVaultBalance, part_002 112-136: 0 without a vault address and after  *)
(* a failed read                                                           *)
getVaultBalance(deployed, read) ==
  IF ~deployed THEN 0
  ELSE IF read = ReadFailed THEN 0
  ELSE read

(* a pass awaiting its reads: the networks it issued a read for (those     *)
(* with a vault address, part_002 113-115) and whether a pass started      *)
(* after it has published its result already                               *)
NewPass(deployed) ==
  [issued |-> {n \in NetworkNames : n \in deployed}, superseded |-> FALSE]

\* the passes started before position i have been overtaken
Supersede(q, i) ==
  [k \in 1..Len(q) |->
     IF k < i THEN [q[k] EXCEPT !.superseded = TRUE] ELSE q[k]]

RECURSIVE SumSeq(_)
SumSeq(q) == IF q = <<>> THEN 0 ELSE q[1] + SumSeq(Tail(q))

\* variant of AllocationPercent: rounded up
CeilPercent(balance, totalRaw) ==
  IF totalRaw > 0 THEN (balance * 100 + totalRaw - 1) \div totalRaw ELSE 0

\* variant of AllocationPercent: rounded to nearest
RoundedPercent(balance, totalRaw) ==
  IF totalRaw > 0 THEN (balance * 200 + totalRaw) \div (2 * totalRaw) ELSE 0

\* allocationPercent, part_002 183-187
AllocationPercent(balance, totalRaw) ==
  IF totalRaw > 0 THEN (balance * 100) \div totalRaw ELSE 0

(* Array.prototype.sort((a, b) => b.allocation - a.allocation), part_002   *)
(* 205: descending and stable                                              *)
SortByAllocation(items) ==
  LET Before(i, j) ==
        \/ items[i].allocation > items[j].allocation
        \/ items[i].allocation = items[j].allocation /\ i < j
      Rank(i) == Cardinality({j \in 1..Len(items) : Before(j, i)}) + 1
  IN  [k \in 1..Len(items) |->
        items[CHOOSE i \in 1..Len(items) : Rank(i) = k]]

\* the mock view, part_002 155-165
MockAllocations ==
  SortByAllocation(<< [name |-> "Ethereum Sepolia", allocation |-> 44],
                      [name |-> "Arbitrum Sepolia", allocation |-> 27],
                      [name |-> "Base Sepolia", allocation |-> 14],
                      [name |-> "Optimism Sepolia", allocation |-> 15] >>)

\* setTotalValue(1234567), as << USDC, 10^-6 USDC >>
MockTotalValue == << 1234567, 0 >>

\* Number(formatUnits(totalRaw, 6)), as << USDC, 10^-6 USDC >>
FormatUnits6(raw) == << raw \div 1000000, raw % 1000000 >>

\* balanceResults, part_002 169-170
BalanceResults(deployed, reads) ==
  [k \in 1..Len(Networks) |->
     getVaultBalance(Networks[k] \in deployed, reads[Networks[k]])]

\* sortedAllocations of a pass with these balances, part_002 173-205
AllocationItems(balances) ==
  SortByAllocation([k \in 1..Len(Networks) |->
    [name |-> Networks[k],
     allocation |-> AllocationPercent(balances[k], SumSeq(balances))]])

(* fetchAllocationData up to its await, part_002 147-170, called with the  *)
(* useMock of the effect that created it                                   *)
Fetch(mock) ==
  IF mock
  THEN /\ allocations' = MockAllocations
       /\ totalValue' = MockTotalValue
       /\ balanceResults' = <<>>
       /\ readOutcomes' = <<>>
       /\ passes' = Supersede(passes, Len(passes) + 1)
  ELSE /\ Len(passes) < MaxPasses
       /\ passes' = Append(passes, NewPass(vaultDeployed))
       /\ UNCHANGED << allocations, totalValue, balanceResults, readOutcomes >>

(* mount, or a tick of setInterval(fetchAllocationData, 30000), 233-238 *)
StartPass ==
  /\ Fetch(useMock)
  /\ UNCHANGED << vaultDeployed, useMock, flowVars, reconVars, registryVars,
                  statusVars >>

(* useMock changes: the effect runs again and fetches at once, 233-239 *)
MockToggled ==
  /\ useMock' = ~useMock
  /\ Fetch(~useMock)
  /\ UNCHANGED << vaultDeployed, flowVars, reconVars, registryVars,
                  statusVars >>

(* Promise.all of pass i resolves with the reads, part_002 170-213 *)
PassCompletes(i, reads) ==
  /\ i \in 1..Len(passes)
  /\ \A n \in NetworkNames : n \notin passes[i].issued => reads[n] = 0
  /\ passes' = RemoveAt(Supersede(passes, i), i)
  /\ readOutcomes' = [k \in 1..Len(Networks) |-> reads[Networks[k]]]
  /\ balanceResults' = BalanceResults(vaultDeployed, reads)
  /\ allocations' = AllocationItems(balanceResults')
  /\ totalValue' = FormatUnits6(SumSeq(balanceResults'))
  /\ UNCHANGED << vaultDeployed, useMock, flowVars, reconVars, registryVars,
                  statusVars >>

AllocationNext ==
  \/ StartPass
  \/ MockToggled
  \/ \E i \in 1..MaxPasses,
        reads \in [NetworkNames -> BalanceValues \cup {ReadFailed}] :
       PassCompletes(i, reads)

(* The vault addresses of CHAIN_CONFIGS (part_002 27-56) are filled in as   *)
(* vaults are deployed; the pass is checked for every set of deployed      *)
(* vaults.                                                                 *)
AllocInit ==
  /\ vaultDeployed \in SUBSET NetworkNames
  /\ useMock \in BOOLEAN
  /\ passes = <<>>
  /\ allocations = <<>>
  /\ totalValue = << 0, 0 >>
  /\ balanceResults = <<>>
  /\ readOutcomes = <<>>

InitAllocation ==
  FlowIdle /\ AllocInit /\ ReconIdle /\ RegistryIdle /\ StatusIdle

SpecAllocation == InitAllocation /\ [][AllocationNext]_vars


(***************************************************************************)
(* Properties of the allocation view (SpecAllocation).                     *)
(***************************************************************************)
\* the percentage shown for network n
PercentOf(n) ==
  LET k == CHOOSE j \in 1..Len(allocations) : allocations[j].name = n
  IN  allocations[k].allocation

PercentSum == SumSeq([k \in 1..Len(allocations) |-> allocations[k].allocation])

OneEntryPerNetwork ==
  /\ Len(allocations) = Len(Networks)
  /\ \A n \in NetworkNames :
       Cardinality({k \in 1..Len(allocations) : allocations[k].name = n}) = 1

C4_FloorPercentages ==
  balanceResults # <<>>
    => LET T == SumSeq(balanceResults)
       IN  /\ T > 0 =>
                \A k \in 1..Len(Networks) :
                  /\ PercentOf(Networks[k]) * T <= 100 * balanceResults[k]
                  /\ 100 * balanceResults[k] < (PercentOf(Networks[k]) + 1) * T
           /\ balanceResults = << 999, 1, 0, 0 >>
                => [k \in 1..Len(Networks) |-> PercentOf(Networks[k])]
                     = << 99, 0, 0, 0 >>

\* the dominated pass of the example
C4_Witness ==
  /\ balanceResults = << 999, 1, 0, 0 >>
  /\ allocations[1] = [name |-> "Arbitrum Sepolia", allocation |-> 99]
  /\ PercentSum = 99


(***************************************************************************)
(* The chain registry on its own (SpecRegistry): a component renders on    *)
(* any chain the wallet reports.                                           *)
(***************************************************************************)
\* the case labels of getContractAddress and getUSDCAddress
ConfiguredChains == {31337, 1, 84532, 421614, 11155420}

\* chain ids a wallet can report: the configured ones, Goerli (5) and other
\* small ids, Polygon, Arbitrum One, Ethereum Sepolia
ChainIds == ConfiguredChains \cup (2..60) \cup {137, 42161, 11155111}

\* the lookup threw instead of returning
Throws(out) ==
  out \in {"throw: Unsupported chain ID",
           "throw: AAVE Vault not yet deployed on Optimism Sepolia. Coming soon!"}

(* useReadContract({address: chainId ? getUSDCAddress(chainId) : undefined  *)
(* ...}), part_000 627-642, and the vault reads at 645-670: the argument   *)
(* is evaluated first, so the read is set up only when the lookup returns  *)
LookupAddress(fn, id) ==
  /\ lookup' =
       LET out == IF fn = "getContractAddress" THEN getContractAddress(id)
                  ELSE getUSDCAddress(id)
       IN  [fn |-> fn, id |-> id, out |-> out, read |-> ~Throws(out)]
  /\ UNCHANGED << flowVars, allocVars, reconVars, statusVars >>

RegistryNext ==
  \E fn \in {"getContractAddress", "getUSDCAddress"}, id \in ChainIds :
    LookupAddress(fn, id)

InitRegistry == FlowIdle /\ AllocIdle /\ ReconIdle /\ RegistryIdle /\ StatusIdle

SpecRegistry == InitRegistry /\ [][RegistryNext]_vars

(* C11: a vault or asset address lookup for a chain id that is not         *)
(* configured raises the unsupported-chain error instead of returning an   *)
(* address, and no read is set up for that chain.                          *)
C11_UnsupportedChainRaises ==
  (lookup.fn # "none" /\ lookup.id \notin ConfiguredChains)
    => /\ lookup.out = "throw: Unsupported chain ID"
       /\ ~lookup.read

\* the vault address of chain 5 has been looked up
C11_Witness ==
  /\ lookup.fn = "getContractAddress"
  /\ lookup.id = 5
  /\ lookup.out = "throw: Unsupported chain ID"
  /\ ~lookup.read


(***************************************************************************)
(* The amount field on its own (SpecAmount): any text can reach the        *)
(* onChange handler (typed, pasted or filled in by the browser).           *)
(***************************************************************************)
\* the characters of the short texts
AmountChars == {"0", "7", ".", "-"}

(* every text of up to three of these characters, and longer ones with     *)
(* more than six digits after the first '.'                                *)
AmountTexts ==
  UNION {[1..n -> AmountChars] : n \in 0..3}
    \cup { <<"1", ".", "2", "3", "4", "5", "6", "7">>,
           <<"1", ".", "2", "3", "4", "5", "6", "7", "8">>,
           <<"1", ".", "2", ".", "3", "4", "5", "6", "7", "8">>,
           <<"0", ".", "0", "0", "0", ".", "0", "0", "0", "1">>,
           <<"1", "e", "5">> }

AmountNext ==
  \/ HandleDeposit
  \/ \E raw \in AmountTexts : TypeDepositAmount(raw)
  \/ BlurDepositAmount
  \/ HandleInitiateDeposit
  \/ HandleCancel
  \/ RunEffects

SpecAmount == Init /\ [][AmountNext]_vars

\* s has at most one '.' and at most six characters after it
SixDecimals(s) ==
  /\ Cardinality(DotPositions(s)) <= 1
  /\ Len(AfterFirstDot(s)) <= 6

(* C12: every string sanitizeAmountInput produces has at most one decimal  *)
(* point and at most 6 digits after it, and a write is requested only for  *)
(* an amount that is such a string and is positive.                        *)
C12_AmountsHaveSixDecimals ==
  /\ SixDecimals(depositAmount)
  /\ SixDecimals(withdrawAmount)
  /\ (depositStep = "approving" /\ isPending(usdcTx))
       => /\ SixDecimals(depositAmount)
          /\ ~parseFloat(depositAmount).nan
          /\ parseFloat(depositAmount).micro > 0


(***************************************************************************)
(* Properties of retry and cancel (Spec).                                  *)
(***************************************************************************)
(* C13: from the error step of the deposit and of the withdraw flow, the   *)
(* retry action returns the step to 'input' and empties the amount field.  *)
C13_RetryDiscardsAmount ==
  [][/\ HandleRetry => (depositStep' = "input" /\ depositAmount' = <<>>)
     /\ WithdrawTryAgain
          => (withdrawStep' = "input" /\ withdrawAmount' = <<>>)]_vars

(* an event of an attempt reaches the component: effects run on a changed  *)
(* hook, or a promise an attempt was waiting for settles                   *)
AttemptEvent ==
  \/ RunEffects
  \/ \E i \in 1..MaxRechecks : RecheckResolves(i)
  \/ \E i \in 1..MaxOracle, snapshot \in Snapshots : OracleResponds(i, snapshot)
  \/ \E i \in 1..MaxOracle, message \in OracleErrors : OracleFails(i, message)

(* C14: in the balance view no attempt is open (it was cancelled, or       *)
(* closed with Done); an event of an earlier attempt that arrives there    *)
(* changes neither the deposit step nor the withdraw step nor the view.    *)
C14_AbandonedAttemptIgnored ==
  [][(currentState = "balance" /\ AttemptEvent)
       => UNCHANGED << currentState, depositStep, withdrawStep >>]_vars


(***************************************************************************)
(* Properties of failed and reverted writes (Spec).                        *)
(***************************************************************************)
\* the failure carries the false-negative simulation signature
SimulationFailure(tx) ==
  /\ hasWriteError(tx)
  /\ isMetaMaskSimulationError(tx.err)
  /\ ~isUserRejection(tx.err)

(* C16: when the approval failed with the false-negative signature and the *)
(* re-read allowance is below the requested amount (zero, or positive but  *)
(* smaller), the attempt goes to 'error' and no deposit is requested.      *)
C16_RecheckBelowAmountFails ==
  [][\A i \in 1..MaxRechecks :
       (/\ RecheckResolves(i)
        /\ ~GEu256(chainAllowance, ToU256(parseUnits(rechecks[i].amount))))
         => /\ depositStep' = "error"
            /\ oracleReqs' = oracleReqs
            /\ writes' = writes]_vars

(* C17: when a deposit write fails with the false-negative signature, the  *)
(* handlers of that failure do not move the attempt to 'error': the        *)
(* balance is re-read first.                                               *)
C17_DepositFalseNegativeRechecks ==
  [][(/\ RunEffects
      /\ depositStep = "depositing"
      /\ SimulationFailure(vaultTx))
       => depositStep' # "error"]_vars

\* the messages that tell the user to verify on the block explorer
ExplorerMessages == {MsgFalseNegative, MsgApprovalFalseNegative}

(* C18: when an attempt ends in 'error' because of a false-negative        *)
(* simulation failure, the message left once all handlers of the failure   *)
(* have run is the one that tells the user to verify on the block          *)
(* explorer: for a deposit or withdraw write after the two effects, for an *)
(* approval after the allowance re-check.                                  *)
C18_FalseNegativeMessageShown ==
  [][/\ (/\ RunEffects
         /\ SimulationFailure(vaultTx)
         /\ depositStep = "depositing" \/ withdrawStep = "withdrawing")
          => errorMessage' \in ExplorerMessages
     /\ \A i \in 1..MaxRechecks :
          (RecheckResolves(i) /\ depositStep' = "error" /\ depositStep # "error")
            => errorMessage' \in ExplorerMessages]_vars

\* the class the watcher effect gives a failed write, part_000 1066-1091
WatcherClass(err) ==
  IF isUserRejection(err) THEN "userRejected"
  ELSE IF isMetaMaskSimulationError(err) THEN "walletSimulationFalseNegative"
  ELSE "unclassified"

\* the class the wallet-cancel effect gives a failed write, part_000 1183-1209
CancelClass(err) ==
  IF isUserRejectionCancel(err) THEN "userRejected" ELSE "unclassified"

\* the class a displayed message tells the user
MessageClass(msg) ==
  IF msg \in {MsgRejected, "Approval was cancelled in wallet.",
              "Deposit was cancelled in wallet.",
              "Withdrawal was cancelled in wallet."}
  THEN "userRejected"
  ELSE IF msg \in ExplorerMessages THEN "walletSimulationFalseNegative"
  ELSE "unclassified"

\* the failed writes the effects of this render react to
FailuresHandled ==
  {tx \in {usdcTx} : hasWriteError(tx) /\ depositStep = "approving"}
    \cup {tx \in {vaultTx} :
            /\ hasWriteError(tx)
            /\ depositStep = "depositing" \/ withdrawStep = "withdrawing"}

(* C19: the handlers that react to a failed write agree on its class, and  *)
(* the message displayed after they have run is the one of that class; a   *)
(* message of the rejection vocabulary is a rejection for every handler.   *)
C19_HandlersAgreeOnClass ==
  [][RunEffects
       => \A tx \in FailuresHandled :
            /\ WatcherClass(tx.err) = CancelClass(tx.err)
            /\ MessageClass(errorMessage') = WatcherClass(tx.err)]_vars

\* a reverted receipt the watcher effect of this render reacts to
RevertHandled ==
  \/ isTxError(usdcTx) /\ depositStep = "approving"
  \/ isTxError(vaultTx) /\ depositStep = "depositing"
  \/ isTxError(vaultTx) /\ withdrawStep = "withdrawing"

(* C20: when a transaction is mined but reverts, the attempt goes to       *)
(* 'error' and a balance refresh is started.                               *)
C20_RevertRefreshes ==
  [][(RunEffects /\ RevertHandled)
       => /\ depositStep' = "error" \/ withdrawStep' = "error"
          /\ refreshInFlight']_vars


(***************************************************************************)
(* The two flows of one user (SpecBothFlows): a user who holds shares      *)
(* deposits 0.01 USDC and withdraws everything, with a wallet whose        *)
(* failures are simulation errors.                                         *)
(***************************************************************************)
\* the vault reads of the user: 0.02 shares of a vault at 1:1
HoldsShares == << 20000, 0, 0 >>

BothFlowsNext ==
  \/ HandleDeposit
  \/ TypeDepositAmount(<< "0", ".", "0", "1" >>)
  \/ HandleInitiateDeposit
  \/ HandleCancel
  \/ HandleRetry
  \/ DepositDone
  \/ HandleWithdrawClick
  \/ WithdrawMax
  \/ HandleWithdraw
  \/ WithdrawDone
  \/ WithdrawTryAgain
  \/ \E h \in {"usdc", "vault"} : WalletAccepts(h)
  \/ \E h \in {"usdc", "vault"} :
       WalletFails(h, {"Internal JSON-RPC error"}, FALSE)
  \/ \E h \in {"usdc", "vault"}, ok \in BOOLEAN : ReceiptArrives(h, ok)
  \/ \E i \in 1..MaxOracle, snapshot \in Snapshots : OracleResponds(i, snapshot)
  \/ \E i \in 1..MaxRechecks : RecheckResolves(i)
  \/ AllowanceReadArrives
  \/ VaultReadsArrive(HoldsShares)
  \/ RefreshCompletes(HoldsShares)
  \/ RunEffects

SpecBothFlows == Init /\ [][BothFlowsNext]_vars

\* the effects of this render react to the approval hook
UsdcHandled ==
  /\ depositStep = "approving"
  /\ isTxSuccess(usdcTx) \/ isTxError(usdcTx) \/ hasWriteError(usdcTx)

(* C15: a vault transaction's confirmation, revert or write error advances *)
(* only the flow that submitted it: the effects that react to a withdraw   *)
(* transaction leave the deposit step alone, and those that react to a     *)
(* deposit transaction leave the withdraw step alone.                      *)
C15_EventsStayWithTheirFlow ==
  [][(RunEffects /\ vaultTx # NoTx)
       => /\ (vaultTx.fn = "withdraw" /\ ~UsdcHandled)
               => depositStep' = depositStep
          /\ IsDepositWrite(vaultTx) => withdrawStep' = withdrawStep]_vars


(***************************************************************************)
(* Leaving an attempt: the error step, Cancel, and the confirming step.    *)
(***************************************************************************)
(* C21: from 'error' the deposit step changes only through the user's      *)
(* retry or cancel, and both lead to 'input'; no wallet, receipt or read   *)
(* callback moves it out of 'error', to 'confirming' or 'depositing'.      *)
C21_ErrorLeftOnlyByUser ==
  [][(depositStep = "error" /\ depositStep' # "error")
       => /\ HandleRetry \/ HandleCancel
          /\ depositStep' = "input"]_vars

\* a view of an attempt that is under way or has ended, ready for a click
AttemptShown ==
  /\ ~effectsPending
  /\ \/ /\ currentState = "deposit"
        /\ depositStep \in {"approving", "depositing", "confirming", "error"}
     \/ /\ currentState = "withdraw"
        /\ withdrawStep \in {"withdrawing", "confirming", "error"}

(* C22: the cancel action is enabled in each of the deposit steps          *)
(* approving, depositing, confirming and error and in each of the withdraw *)
(* steps withdrawing, confirming and error.                                *)
C22_CancelAlwaysOffered ==
  AttemptShown => ENABLED HandleCancel

(* C23: the cancel action returns to the balance view, resets both steps   *)
(* to 'input', clears both amounts, the error message and both validation  *)
(* errors, and starts a refresh of all balances.                           *)
C23_CancelResetsAndRefreshes ==
  [][HandleCancel
       => /\ currentState' = "balance"
          /\ depositStep' = "input"
          /\ withdrawStep' = "input"
          /\ depositAmount' = <<>>
          /\ withdrawAmount' = <<>>
          /\ errorMessage' = ""
          /\ depositValidationError' = ""
          /\ withdrawValidationError' = ""
          /\ refreshInFlight']_vars

\* back in the balance view after Cancel in the withdraw error step
C23_Witness ==
  /\ currentState = "balance"
  /\ hasWriteError(vaultTx)
  /\ vaultTx.fn = "withdraw"
  /\ withdrawStep = "input"
  /\ withdrawAmount = <<>>
  /\ errorMessage = ""
  /\ refreshInFlight

\* the step enters 'confirming' in the deposit or in the withdraw flow
EntersConfirming ==
  \/ depositStep # "confirming" /\ depositStep' = "confirming"
  \/ withdrawStep # "confirming" /\ withdrawStep' = "confirming"

(* C24: every transition into 'confirming', of the deposit or of the       *)
(* withdraw flow, starts a refresh, and the refresh re-reads the user's    *)
(* shares, total assets, total supply and the allowance, from which the    *)
(* aggregate vault value is derived.                                       *)
C24_ConfirmingRefreshes ==
  [][/\ EntersConfirming => refreshInFlight'
     /\ RefreshCompletes(HoldsShares)
          => /\ usdcAllowance' = chainAllowance
             /\ << userShareBalance', contractTotalAssets',
                   contractTotalSupply' >> = HoldsShares
             /\ withdrawableAmount' = [num |-> HoldsShares[1], den |-> 1]]_vars

\* the withdraw flow has entered 'confirming' and its refresh is under way
C24_Witness ==
  /\ withdrawStep = "confirming"
  /\ isTxSuccess(vaultTx)
  /\ vaultTx.fn = "withdraw"
  /\ refreshInFlight


(***************************************************************************)
(* Share price and yield of the reconciler (SpecReconcile).                *)
(***************************************************************************)
(* C25: the share price of the reconciler equals totalAssets / totalSupply *)
(* whenever totalSupply > 0, for every value of the user's shares          *)
(* (including 0), and equals 1 otherwise.                                  *)
C25_SharePriceFromTotals ==
  /\ reconPrice.den > 0
  /\ IF contractTotalSupply > 0
     THEN reconPrice.num * contractTotalSupply
            = contractTotalAssets * reconPrice.den
     ELSE reconPrice.num = reconPrice.den

(* C26: the yield shown is the published rate applied pro-rata to the      *)
(* deposited value and not the difference between the deposited value and  *)
(* the share count: two renders with the same deposited value show the     *)
(* same yield, whatever the share counts behind them.                      *)
C26_YieldFollowsDepositedValue ==
  [][(reconOut'.num * reconOut.den = reconOut.num * reconOut'.den)
       => (reconYield'.num * reconYield.den
             = reconYield.num * reconYield'.den)]_vars

(***************************************************************************)
(* The approval request (Spec).                                            *)
(***************************************************************************)
\* 2^256 - 1
MaxUint256 == [i \in 1..64 |-> 15]

\* the step hands a new request to the approval hook
ApprovalSubmitted ==
  /\ usdcTx' # usdcTx
  /\ isPending(usdcTx')

(* C27: every approval submitted is approve(vault of the current chain,    *)
(* 2^256 - 1) on the USDC contract of the current chain, whatever the      *)
(* amount entered.                                                         *)
C27_ApprovalIsUnlimited ==
  [][ApprovalSubmitted
       => /\ usdcTx'.fn = "approve"
          /\ usdcTx'.to = getUSDCAddress(chainId)
          /\ usdcTx'.args = << getContractAddress(chainId), MaxUint256 >>
          /\ depositAmount' = depositAmount
          /\ isValidAmount(depositAmount)]_vars

\* an unlimited approval for a deposit of 0.03 USDC waits in the wallet
C27_Witness ==
  /\ depositStep = "approving"
  /\ depositAmount = << "0", ".", "0", "3" >>
  /\ isPending(usdcTx)
  /\ usdcTx.fn = "approve"
  /\ usdcTx.args[2] = MaxUint256

(***************************************************************************)
(* Failed reads, order and overlap of aggregation passes (SpecAllocation). *)
(***************************************************************************)
\* what network k contributes given the outcome of its read
Contribution(k) ==
  IF Networks[k] \notin vaultDeployed \/ readOutcomes[k] = ReadFailed
  THEN 0
  ELSE readOutcomes[k]

\* the raw balance behind the entry of network n
RawBalanceOf(n) ==
  balanceResults[CHOOSE k \in 1..Len(Networks) : Networks[k] = n]

(* C28: a pass never aborts because of one network: no read is issued for  *)
(* a network without a vault and it contributes 0, a network whose read    *)
(* fails contributes 0, and the pass publishes one entry per network with  *)
(* the percentages computed from the remaining balances.                   *)
C28_PassSurvivesEveryNetwork ==
  /\ \A i \in 1..Len(passes) : passes[i].issued \subseteq vaultDeployed
  /\ readOutcomes # <<>>
       => LET b == [k \in 1..Len(Networks) |-> Contribution(k)]
              T == SumSeq(b)
          IN  /\ balanceResults = b
              /\ OneEntryPerNetwork
              /\ totalValue = FormatUnits6(T)
              /\ \A k \in 1..Len(Networks) :
                   PercentOf(Networks[k])
                     = IF T > 0 THEN (100 * b[k]) \div T ELSE 0

\* one read failed, and the other deployed network holds everything
C28_Witness ==
  /\ vaultDeployed = {"Arbitrum Sepolia", "Base Sepolia"}
  /\ readOutcomes = << ReadFailed, 999, 0, 0 >>
  /\ balanceResults = << 0, 999, 0, 0 >>
  /\ allocations[1] = [name |-> "Base Sepolia", allocation |-> 100]
  /\ Len(allocations) = Len(Networks)

PassPublishes(i) ==
  /\ i \in 1..Len(passes)
  /\ passes' = RemoveAt(Supersede(passes, i), i)

(* C30: the result of a pass that finishes after a pass started later has  *)
(* published never replaces that later result, and the published          *)
(* allocations and total value always come from the same pass.             *)
C30_LatePassNeverPublishes ==
  [][/\ \A i \in 1..MaxPasses : PassPublishes(i) => ~passes[i].superseded
     /\ (allocations' # <<>> /\ balanceResults' # <<>>)
          => /\ allocations' = AllocationItems(balanceResults')
             /\ totalValue' = FormatUnits6(SumSeq(balanceResults'))
     /\ (allocations' # <<>> /\ balanceResults' = <<>>)
          => /\ allocations' = MockAllocations
             /\ totalValue' = MockTotalValue]_vars


(***************************************************************************)
(* Whose transaction it is: the shared vault hook and abandoned attempts.  *)
(***************************************************************************)
(* C32: the deposit step enters 'confirming' only when the vault hook      *)
(* holds a deposit write that has confirmed on chain; the success status   *)
(* of an earlier vault transaction, such as a withdrawal, never completes  *)
(* a deposit.                                                              *)
C32_OnlyADepositConfirmsDeposit ==
  [][(depositStep # "confirming" /\ depositStep' = "confirming")
       => /\ vaultTx # NoTx
          /\ IsDepositWrite(vaultTx)
          /\ isTxSuccess(vaultTx)]_vars

(* C33: no write is submitted for an attempt the user has cancelled or     *)
(* retried: when a deposit write is submitted the deposit view shows step  *)
(* 'depositing' for the amount of that write; in particular an allowance   *)
(* re-check that completes after Cancel submits no deposit.                *)
C33_NoWriteAfterAbandon ==
  [][\A i \in 1..MaxOracle, snapshot \in Snapshots :
       OracleResponds(i, snapshot)
         => /\ currentState = "deposit"
            /\ depositStep = "depositing"
            /\ depositAmount = oracleReqs[i].amount]_vars

\* the step takes the vault hook away from the write it observes
VaultHookTaken ==
  /\ vaultTx' # vaultTx
  /\ vaultTx' = NoTx \/ isPending(vaultTx')

(* C34: no vault write is submitted, and the vault hook is not reset, while *)
(* the write the hook observes still awaits the wallet or its receipt: a   *)
(* deposit never discards an in-flight withdrawal, nor a withdrawal an     *)
(* in-flight deposit.                                                      *)
C34_NoWriteOverInFlightWrite ==
  [][VaultHookTaken => ~InFlight(vaultTx)]_vars


(***************************************************************************)
(* Progress of an attempt.  The user may click or not, so no user action   *)
(* is fair; what the wallet, the chain, the oracle and React owe the       *)
(* program is: a wallet prompt is answered, a submitted transaction gets   *)
(* its receipt, an awaited promise settles, a chain read arrives, and the  *)
(* effects of a render run.                                                *)
(***************************************************************************)
LiveNext ==
  \/ HandleDeposit
  \/ TypeDepositAmount(<< "0", ".", "0", "1" >>)
  \/ HandleInitiateDeposit
  \/ HandleCancel
  \/ HandleRetry
  \/ DepositDone
  \/ HandleWithdrawClick
  \/ WithdrawMax
  \/ HandleWithdraw
  \/ WithdrawDone
  \/ WithdrawTryAgain
  \/ \E h \in {"usdc", "vault"} : WalletAccepts(h)
  \/ \E h \in {"usdc", "vault"} :
       WalletFails(h, {"Internal JSON-RPC error"}, FALSE)
  \/ \E h \in {"usdc", "vault"}, ok \in BOOLEAN : ReceiptArrives(h, ok)
  \/ \E i \in 1..MaxOracle, snapshot \in Snapshots : OracleResponds(i, snapshot)
  \/ \E i \in 1..MaxOracle, message \in OracleErrors : OracleFails(i, message)
  \/ \E i \in 1..MaxRechecks : RecheckResolves(i)
  \/ AllowanceReadArrives
  \/ VaultReadsArrive(HoldsShares)
  \/ RefreshCompletes(HoldsShares)
  \/ RunEffects

WalletAnswers ==
  \E h \in {"usdc", "vault"} :
    \/ WalletAccepts(h)
    \/ WalletFails(h, {"Internal JSON-RPC error"}, FALSE)

ReceiptComes ==
  \E h \in {"usdc", "vault"}, ok \in BOOLEAN : ReceiptArrives(h, ok)

OracleAnswers ==
  \/ \E i \in 1..MaxOracle, snapshot \in Snapshots : OracleResponds(i, snapshot)
  \/ \E i \in 1..MaxOracle, message \in OracleErrors : OracleFails(i, message)

RecheckComes == \E i \in 1..MaxRechecks : RecheckResolves(i)

ResponsesArrive ==
  /\ WF_vars(RunEffects)
  /\ WF_vars(WalletAnswers)
  /\ WF_vars(ReceiptComes)
  /\ WF_vars(OracleAnswers)
  /\ WF_vars(RecheckComes)
  /\ WF_vars(AllowanceReadArrives)
  /\ WF_vars(VaultReadsArrive(HoldsShares))
  /\ WF_vars(RefreshCompletes(HoldsShares))

SpecLive == Init /\ [][LiveNext]_vars /\ ResponsesArrive

(* C35: when every wallet response, receipt, oracle response and chain     *)
(* read arrives, a deposit attempt in step 'approving' or 'depositing'     *)
(* eventually reaches 'confirming' or 'error' (or is taken back to 'input' *)
(* by the user), and a withdraw attempt in step 'withdrawing' eventually   *)
(* reaches 'confirming' or 'error': no attempt stays in a working step     *)
(* forever.                                                                *)
C35_AttemptsTerminate ==
  /\ (depositStep \in {"approving", "depositing"})
       ~> (depositStep \in {"confirming", "error", "input"})
  /\ (withdrawStep = "withdrawing")
       ~> (withdrawStep \in {"confirming", "error", "input"})


(***************************************************************************)
(* Status messages: TransactionStatusProvider, TransactionStatusContext.tsx *)
(* 68-170.  The provider's functions are called by BalanceFigma and by any *)
(* other consumer; their callers pass any message, so the functions are    *)
(* modelled on their own, with the message as input.  Time is Date.now()   *)
(* in milliseconds.  A message id is a record: key is the upsert key, or   *)
(* '' with the serial n for an id drawn by Math.random.                    *)
(***************************************************************************)
MAX_PERSISTED_TRANSACTIONS == 10

\* messages kept in the active list: slice(0, 3)
ShownLimit == 3

\* 7 days, as at TransactionStatusContext.tsx 49
SevenDays == 7 * 24 * 60 * 60 * 1000

OneDay == 24 * 60 * 60 * 1000

\* delay of the auto-remove timer of addMessage
AutoRemoveDelay == 10000

\* txHash: undefined
NoHash == 0

\* bound: transaction hashes 1..MaxHashes
MaxHashes == 11

\* bound: once the active list holds more than MaxVaried messages, the only
\* call that adds a message is addMessage with a success and a new hash
MaxVaried == 1

\* bound: days pass while at most MaxAged transactions are stored
MaxAged == 2

\* bound: the clock runs for MaxDays days
MaxDays == 8

Take(s, n) == SubSeq(s, 1, IF Len(s) < n THEN Len(s) ELSE n)

IdsOf(s) == {s[i].id : i \in 1..Len(s)}

HashesOf(s) == {s[i].txHash : i \in 1..Len(s)}

RandomId(n) == [key |-> "", n |-> n]

KeyId(key) == [key |-> key, n |-> 0]

\* Math.random().toString(36).substr(2, 9): an id no message in use has
FreshId ==
  LET used == IdsOf(messages) \cup IdsOf(persistedTransactions)
                \cup IdsOf(storage)
      free == {n \in 1..(Cardinality(used) + 1) : RandomId(n) \notin used}
  IN  RandomId(CHOOSE n \in free : \A m \in free : n <= m)

\* { ...messageData, id, timestamp }
StatusMessage(id, messageData, timestamp) ==
  [id |-> id, type |-> messageData.type, message |-> messageData.message,
   txHash |-> messageData.txHash, timestamp |-> timestamp]

\* variant of loadPersistedTransactions: nothing is filtered out
LoadEverything(stored, t) == stored

(* loadPersistedTransactions, TransactionStatusContext.tsx 42-56, of the   *)
(* stored list at time t                                                   *)
loadPersistedTransactions(stored, t) ==
  LET recent(tx) == tx.timestamp > t - SevenDays
  IN  SelectSeq(stored, recent)

\* variant of persistTransaction: no cap on the history
PersistUncapped(prev, message) ==
  IF message.type = "success" /\ message.txHash # NoHash
  THEN IF message.txHash \in HashesOf(prev) THEN prev
       ELSE << message >> \o prev
  ELSE prev

(* the updater of persistTransaction, TransactionStatusContext.tsx 78-91,  *)
(* with the test of its callers                                            *)
persistTransaction(prev, message) ==
  IF message.type = "success" /\ message.txHash # NoHash
  THEN IF message.txHash \in HashesOf(prev) THEN prev
       ELSE Take(<< message >> \o prev, MAX_PERSISTED_TRANSACTIONS)
  ELSE prev

\* persistTransaction with savePersistedTransactions (58-66) of a new list
Persist(message) ==
  /\ persistedTransactions' =
       persistTransaction(persistedTransactions, message)
  /\ storage' = IF persistedTransactions' # persistedTransactions
                THEN persistedTransactions'
                ELSE storage

\* variant of upsert: the message is always put in front
UpsertInFront(prev, updated) == Take(<< updated >> \o prev, ShownLimit)

\* the updater of upsertMessage, TransactionStatusContext.tsx 121-131
upsert(prev, updated) ==
  LET found == {i \in 1..Len(prev) : prev[i].id = updated.id}
  IN  IF found # {}
      THEN [prev EXCEPT ![CHOOSE i \in found : \A j \in found : i <= j] = updated]
      ELSE Take(<< updated >> \o prev, ShownLimit)

\* variant of clearPersisted: the whole history is dropped
ClearWholeHistory(prev, id) == <<>>

\* the updater of clearPersistedTransaction, TransactionStatusContext.tsx 149-153
clearPersisted(prev, id) ==
  LET other(tx) == tx.id # id
  IN  SelectSeq(prev, other)

\* the filter of removeMessage and of the auto-remove timer (113, 140)
withoutMessage(prev, id) ==
  LET other(msg) == msg.id # id
  IN  SelectSeq(prev, other)

\* a status function leaves the rest of the program alone
StatusFrame == UNCHANGED << flowVars, allocVars, reconVars, registryVars >>

(* addMessage, TransactionStatusContext.tsx 93-118; its timer is AutoRemove *)
AddMessage(messageData) ==
  LET newMessage == StatusMessage(FreshId, messageData, now)
  IN  /\ ~syncPending
      /\ messages' = Take(<< newMessage >> \o messages, ShownLimit)
      /\ Persist(newMessage)
      /\ syncPending' = TRUE
      /\ UNCHANGED << now, activeMessages >>
      /\ StatusFrame

(* the setTimeout callback of addMessage (111-115) for the message id, set *)
(* for a success or info message and run AutoRemoveDelay after it          *)
AutoRemove(id) ==
  /\ ~syncPending
  /\ \E i \in 1..Len(messages) :
       /\ messages[i].id = id
       /\ id.key = ""
       /\ messages[i].type \in {"success", "info"}
       /\ now - messages[i].timestamp >= AutoRemoveDelay
  /\ messages' = withoutMessage(messages, id)
  /\ syncPending' = TRUE
  /\ UNCHANGED << persistedTransactions, storage, now, activeMessages >>
  /\ StatusFrame

(* upsertMessage, TransactionStatusContext.tsx 120-137 *)
UpsertMessage(key, messageData) ==
  LET updated == StatusMessage(KeyId(key), messageData, now)
  IN  /\ ~syncPending
      /\ messages' = upsert(messages, updated)
      /\ Persist(updated)
      /\ syncPending' = TRUE
      /\ UNCHANGED << now, activeMessages >>
      /\ StatusFrame

(* removeMessage, TransactionStatusContext.tsx 139-141 *)
RemoveMessage(id) ==
  /\ ~syncPending
  /\ messages' = withoutMessage(messages, id)
  /\ syncPending' = TRUE
  /\ UNCHANGED << persistedTransactions, storage, now, activeMessages >>
  /\ StatusFrame

(* clearMessages, TransactionStatusContext.tsx 143-146 *)
ClearMessages ==
  /\ ~syncPending
  /\ messages' = <<>>
  /\ syncPending' = TRUE
  /\ UNCHANGED << persistedTransactions, storage, now, activeMessages >>
  /\ StatusFrame

(* clearPersistedTransaction, TransactionStatusContext.tsx 148-154 *)
ClearPersistedTransaction(id) ==
  /\ ~syncPending
  /\ persistedTransactions' = clearPersisted(persistedTransactions, id)
  /\ storage' = persistedTransactions'
  /\ UNCHANGED << messages, now, activeMessages, syncPending >>
  /\ StatusFrame

(* the page is loaded again: both providers mount with empty state and the *)
(* mount effect (TransactionStatusContext.tsx 73-76) loads the history     *)
MountProvider ==
  /\ ~syncPending
  /\ messages' = <<>>
  /\ activeMessages' = <<>>
  /\ persistedTransactions' = loadPersistedTransactions(storage, now)
  /\ UNCHANGED << storage, now, syncPending >>
  /\ StatusFrame

\* d milliseconds pass; the clock is followed up to limit
TimePasses(d, limit) ==
  /\ ~syncPending
  /\ now + d <= limit
  /\ now' = now + d
  /\ UNCHANGED << messages, persistedTransactions, storage, activeMessages,
                  syncPending >>
  /\ StatusFrame


(***************************************************************************)
(* The message state: MessageStateProvider, MessageStateContext.tsx        *)
(* 70-280.  MessageType and MessageCategory are imported from              *)
(* '@/constants/messages'; MESSAGE_PRIORITIES and CATEGORY_PRIORITY_BOOST  *)
(* are indexed by them, so the types are the keys of the two tables.  An   *)
(* active message carries what the provider reads: id, type, category,     *)
(* persistent, priority and timestamp.                                     *)
(***************************************************************************)
MessageTypes == {"loading", "error", "success", "info", "idle"}

MessageCategories ==
  {"welcome", "welcome-back", "deposit", "withdraw", "vault-shares"}

TransactionCategories == {"deposit", "withdraw", "vault-shares"}

WelcomeCategories == {"welcome", "welcome-back"}

\* MESSAGE_PRIORITIES, MessageStateContext.tsx 53-59
MESSAGE_PRIORITIES(type) ==
  CASE type = "loading" -> 100
    [] type = "error" -> 90
    [] type = "success" -> 80
    [] type = "info" -> 50
    [] type = "idle" -> 40

\* CATEGORY_PRIORITY_BOOST, MessageStateContext.tsx 62-68
CATEGORY_PRIORITY_BOOST(category) ==
  CASE category = "welcome" -> 0
    [] category = "welcome-back" -> 5
    [] category = "deposit" -> 10
    [] category = "withdraw" -> 10
    [] category = "vault-shares" -> 5

\* calculatePriority, MessageStateContext.tsx 78-82
calculatePriority(type, category) ==
  MESSAGE_PRIORITIES(type) + CATEGORY_PRIORITY_BOOST(category)

\* age below which the auto-hide tick keeps a message
AutoHideAge == 5000

\* bound: active messages an addMessage call is made with
MaxActive == 3

\* bound: the clock runs for MaxSeconds seconds
MaxSeconds == 10

\* m goes behind the messages of sorted whose priority is not lower
InsertByPriority(sorted, m) ==
  LET ahead == {i \in 1..Len(sorted) : sorted[i].priority >= m.priority}
      k == Cardinality(ahead)
  IN  SubSeq(sorted, 1, k) \o << m >> \o SubSeq(sorted, k + 1, Len(sorted))

RECURSIVE SortByPriority(_)
\* list.sort((a, b) => b.priority - a.priority): stable, highest first
SortByPriority(list) ==
  CHOOSE sorted \in
    {IF l = <<>> THEN <<>>
     ELSE InsertByPriority(SortByPriority(SubSeq(l, 1, Len(l) - 1)), l[Len(l)])
       : l \in {list}} : TRUE

\* generateMessageId (85-87): an id no active message of list has
FreshActiveId(list) ==
  LET free == {n \in 1..(Len(list) + 1) : n \notin IdsOf(list)}
  IN  CHOOSE n \in free : \A m \in free : n <= m

ActiveMessage(id, type, category, persistent, timestamp) ==
  [id |-> id, type |-> type, category |-> category, persistent |-> persistent,
   priority |-> calculatePriority(type, category), timestamp |-> timestamp]

\* variant of addActive: the new message is appended, the list is not sorted
AppendUnsorted(prev, newMessage) ==
  LET kept(msg) == msg.category # newMessage.category \/ msg.persistent
  IN  Append(SelectSeq(prev, kept), newMessage)

\* the updater of addMessage, MessageStateContext.tsx 99-107
addActive(prev, newMessage) ==
  LET kept(msg) == msg.category # newMessage.category \/ msg.persistent
  IN  SortByPriority(Append(SelectSeq(prev, kept), newMessage))

\* addMessage, MessageStateContext.tsx 90-110, applied to the list prev
addMessage(prev, type, category, persistent) ==
  addActive(prev, ActiveMessage(FreshActiveId(prev), type, category,
                                persistent, now))

withoutCategories(prev, categories) ==
  LET other(msg) == msg.category \notin categories
  IN  SelectSeq(prev, other)

MessageFrame ==
  /\ UNCHANGED << messages, persistedTransactions, storage, now, syncPending >>
  /\ StatusFrame

(* addMessage called by a consumer of the context *)
AddActiveMessage(type, category, persistent) ==
  /\ ~syncPending
  /\ Len(activeMessages) < MaxActive
  /\ activeMessages' = addMessage(activeMessages, type, category, persistent)
  /\ MessageFrame

(* removeMessage, MessageStateContext.tsx 113-115 *)
RemoveActiveMessage(id) ==
  /\ ~syncPending
  /\ activeMessages' = withoutMessage(activeMessages, id)
  /\ MessageFrame

(* clearMessages and refreshState, MessageStateContext.tsx 118-120, 257-260 *)
ClearActiveMessages ==
  /\ ~syncPending
  /\ activeMessages' = <<>>
  /\ MessageFrame

(* clearMessagesByCategory, MessageStateContext.tsx 123-125 *)
ClearMessagesByCategory(category) ==
  /\ ~syncPending
  /\ activeMessages' = withoutCategories(activeMessages, {category})
  /\ MessageFrame

(* the welcome effect, MessageStateContext.tsx 128-188, for the values of  *)
(* useAccount and useWelcome of its render: the filter of a disconnected   *)
(* user, or the callback of the 100 ms timer                               *)
WelcomeUpdate(isConnected, showWelcome, showWelcomeBack, hasDeposits) ==
  LET hasActiveTransactionMessages ==
        \E i \in 1..Len(activeMessages) :
          /\ activeMessages[i].category \in TransactionCategories
          /\ activeMessages[i].type \in {"loading", "success"}
      filtered == withoutCategories(activeMessages, WelcomeCategories)
      welcome(type, category) ==
        SortByPriority(Append(filtered,
          ActiveMessage(FreshActiveId(filtered), type, category, FALSE, now)))
  IN  /\ ~syncPending
      /\ activeMessages' =
           IF ~isConnected THEN filtered
           ELSE IF hasActiveTransactionMessages THEN activeMessages
           ELSE IF showWelcomeBack /\ hasDeposits
                THEN welcome("idle", "welcome-back")
           ELSE IF showWelcome /\ ~hasDeposits
                THEN welcome("info", "welcome")
           ELSE filtered
      /\ MessageFrame

(* String.includes for the texts of StatusTexts: the words of the effect   *)
(* at 204-218 that occur in text, as written and in text.toLowerCase()     *)
WordsIn(text) ==
  CASE text = "Deposit with signature in progress..." ->
         [cased |-> {"progress"}, lower |-> {"deposit"}]
    [] text = "Approving spending limit..." ->
         [cased |-> {"pending"}, lower |-> {}]
    [] text = "Withdrawal of 0.02 USDC completed successfully!" ->
         [cased |-> {"successful"}, lower |-> {"withdraw"}]
    [] text = "Approval failed on-chain." ->
         [cased |-> {"failed"}, lower |-> {}]
    [] text = "Vault contract not available on current network." ->
         [cased |-> {}, lower |-> {"vault"}]

\* the type the effect derives from a status message, 200-210
SyncType(text) ==
  LET words == WordsIn(text).cased
  IN  IF words \cap {"progress", "pending"} # {} THEN "loading"
      ELSE IF words \cap {"successful", "confirmed"} # {} THEN "success"
      ELSE IF words \cap {"failed", "error"} # {} THEN "error"
      ELSE "info"

\* the category the effect derives from a status message, 201, 212-219
SyncCategory(text) ==
  LET words == WordsIn(text).lower
  IN  IF "deposit" \in words THEN "deposit"
      ELSE IF "withdraw" \in words THEN "withdraw"
      ELSE IF words \cap {"vault", "shares"} # {} THEN "vault-shares"
      ELSE "deposit"

RECURSIVE AddEach(_, _)
\* transactionMessages.forEach(txMsg => addMessage(...)), 198-228
AddEach(prev, txMsgs) ==
  IF txMsgs = <<>> THEN prev
  ELSE LET type == SyncType(txMsgs[1].message)
       IN  AddEach(addMessage(prev, type, SyncCategory(txMsgs[1].message),
                              type \in {"loading", "success"}),
                   Tail(txMsgs))

(* the effect on transactionMessages, MessageStateContext.tsx 191-229 *)
SyncTransactionMessages ==
  /\ syncPending
  /\ activeMessages' =
       AddEach(withoutCategories(activeMessages, TransactionCategories),
               messages)
  /\ syncPending' = FALSE
  /\ UNCHANGED << messages, persistedTransactions, storage, now >>
  /\ StatusFrame

(* a tick of the auto-hide interval, MessageStateContext.tsx 232-246 *)
AutoHideTick ==
  LET stays(msg) ==
        \/ msg.persistent
        \/ msg.type \in {"loading", "success"}
        \/ msg.category \in WelcomeCategories
        \/ now - msg.timestamp < AutoHideAge
  IN  /\ ~syncPending
      /\ activeMessages' = SelectSeq(activeMessages, stays)
      /\ MessageFrame


(***************************************************************************)
(* The persisted history.  Hashes are issued in order: a call carries no   *)
(* hash, the last hash seen or the next one.                               *)
(***************************************************************************)
InitStatus ==
  FlowIdle /\ AllocIdle /\ ReconIdle /\ RegistryIdle /\ StatusIdle

SuccessText == "Withdrawal of 0.02 USDC completed successfully!"

FailureText == "Approval failed on-chain."

MessageData(type, txHash) ==
  [type |-> type,
   message |-> IF type = "success" THEN SuccessText ELSE FailureText,
   txHash |-> txHash]

\* the last hash a persisted transaction has
LastHash ==
  LET seen == HashesOf(persistedTransactions) \cup HashesOf(storage)
                \cup {NoHash}
  IN  CHOOSE h \in seen : \A g \in seen : g <= h

\* what is stored was saved before now
SavedEarlier == \A i \in 1..Len(storage) : storage[i].timestamp < now

NextHashes == {NoHash, LastHash, LastHash + 1} \cap (0..MaxHashes)

HistoryNext ==
  \/ \E type \in {"success", "error"}, txHash \in NextHashes :
       /\ Len(messages) <= MaxVaried \/ (type = "success" /\ txHash = LastHash + 1)
       /\ AddMessage(MessageData(type, txHash))
  \/ \E txHash \in NextHashes :
       /\ Len(messages) <= MaxVaried
       /\ UpsertMessage("deposit-success", MessageData("success", txHash))
  \/ \E id \in {KeyId("deposit-success"), RandomId(1)} :
       ClearPersistedTransaction(id)
  \/ \E d \in {6 * OneDay, 8 * OneDay} :
       /\ Len(storage) <= MaxAged
       /\ TimePasses(d, MaxDays * OneDay)
  \/ SavedEarlier /\ MountProvider
  \/ SyncTransactionMessages

SpecHistory == InitStatus /\ [][HistoryNext]_vars

\* the cap, the hashes and the types of a history
HistoryWellFormed(history) ==
  /\ Len(history) <= MAX_PERSISTED_TRANSACTIONS
  /\ \A i, j \in 1..Len(history) :
       history[i].txHash = history[j].txHash => i = j
  /\ \A i \in 1..Len(history) :
       history[i].type = "success" /\ history[i].txHash # NoHash

(* C31: after any addMessage, upsertMessage or clearPersistedTransaction   *)
(* call the persisted history (the state and the stored copy) holds at     *)
(* most 10 entries, no two with the same transaction hash, each a success  *)
(* message with a hash; and the history the mount effect loads holds no    *)
(* entry older than 7 days.                                                *)
C31_HistoryCappedAndPruned ==
  [][/\ HistoryWellFormed(persistedTransactions')
     /\ HistoryWellFormed(storage')
     /\ MountProvider
          => \A i \in 1..Len(persistedTransactions') :
               now - persistedTransactions'[i].timestamp <= SevenDays]_vars

\* the history is full and has taken the last hash: the oldest entry was
\* dropped for it
C31_Witness ==
  /\ Len(persistedTransactions) = MAX_PERSISTED_TRANSACTIONS
  /\ persistedTransactions[1].txHash = MaxHashes
  /\ storage = persistedTransactions


(***************************************************************************)
(* The active status messages.  Their hashes play no part in the list, so  *)
(* the messages of this specification carry none.                          *)
(***************************************************************************)
StatusTypes == {"success", "error"}

UpsertKeys == {"deposit-pending", "deposit-success"}

StatusNext ==
  \/ \E type \in StatusTypes : AddMessage(MessageData(type, NoHash))
  \/ \E key \in UpsertKeys, type \in StatusTypes :
       UpsertMessage(key, MessageData(type, NoHash))
  \/ \E id \in IdsOf(messages) \cup {KeyId("deposit-pending")} :
       RemoveMessage(id)
  \/ ClearMessages
  \/ \E id \in IdsOf(messages) : AutoRemove(id)
  \/ TimePasses(AutoRemoveDelay, MaxSeconds * 1000)
  \/ SyncTransactionMessages

SpecStatus == InitStatus /\ [][StatusNext]_vars

\* the step is an upsert for a key the active list holds
UpsertOfPresentKey ==
  \E key \in UpsertKeys, type \in StatusTypes :
    /\ KeyId(key) \in IdsOf(messages)
    /\ UpsertMessage(key, MessageData(type, NoHash))

(* C36: after any addMessage, upsertMessage, removeMessage or              *)
(* clearMessages call the active status list holds at most 3 messages and  *)
(* no two with the same id, so at most one per upsert key; an upsert for a *)
(* key that is present keeps the number and the order of the messages and  *)
(* changes no other message.                                               *)
C36_ActiveListBounded ==
  [][/\ Len(messages') <= ShownLimit
     /\ \A i, j \in 1..Len(messages') :
          messages'[i].id = messages'[j].id => i = j
     /\ UpsertOfPresentKey
          => /\ Len(messages') = Len(messages)
             /\ \A i \in 1..Len(messages) :
                  /\ messages'[i].id = messages[i].id
                  /\ messages'[i] # messages[i]
                       => \A j \in 1..Len(messages) :
                            messages'[j] # messages[j] => j = i]_vars

\* the list is full, and its last message was written after the one in
\* front of it: it was replaced in place by an upsert
C36_Witness ==
  /\ Len(messages) = ShownLimit
  /\ messages[ShownLimit].id.key \in UpsertKeys
  /\ messages[ShownLimit].timestamp > messages[1].timestamp

(***************************************************************************)
(* The active status messages and the history side by side: successes      *)
(* with a hash, shown and persisted, and the calls that clear them.        *)
(***************************************************************************)
ClearsHashes == NextHashes \cap {NoHash, 1, 2}

ClearsNext ==
  \/ \E txHash \in ClearsHashes : AddMessage(MessageData("success", txHash))
  \/ \E txHash \in ClearsHashes :
       UpsertMessage("deposit-success", MessageData("success", txHash))
  \/ \E id \in IdsOf(messages) : RemoveMessage(id)
  \/ ClearMessages
  \/ \E id \in IdsOf(persistedTransactions) : ClearPersistedTransaction(id)
  \/ SyncTransactionMessages

SpecClears == InitStatus /\ [][ClearsNext]_vars

\* the step is a clearMessages or removeMessage call
ActiveCleared ==
  \/ ClearMessages
  \/ \E id \in IdsOf(messages) : RemoveMessage(id)

\* the entries of a list
Entries(list) == {list[i] : i \in 1..Len(list)}

(* C37: clearMessages and removeMessage leave the persisted history (the   *)
(* state and the stored copy) unchanged; clearPersistedTransaction leaves  *)
(* the active messages unchanged and removes from the history the entries  *)
(* with the given id and no other.                                         *)
C37_ClearsKeepToTheirList ==
  [][/\ ActiveCleared => UNCHANGED << persistedTransactions, storage >>
     /\ \A id \in IdsOf(persistedTransactions) :
          ClearPersistedTransaction(id)
            => /\ UNCHANGED messages
               /\ Entries(persistedTransactions')
                    = {tx \in Entries(persistedTransactions) : tx.id # id}
               /\ Len(persistedTransactions')
                    = Cardinality(Entries(persistedTransactions'))]_vars

\* a transaction was cleared from the history while its message is still
\* shown, and another transaction is still in the history
C37_Witness ==
  /\ Len(persistedTransactions) = 1
  /\ storage = persistedTransactions
  /\ \E i \in 1..Len(messages) :
       /\ messages[i].txHash # NoHash
       /\ messages[i].txHash \notin HashesOf(persistedTransactions)

(***************************************************************************)
(* The active messages of the message state: consumers add, remove and     *)
(* clear, the welcome effect and the auto-hide interval run, and the       *)
(* status messages under two upsert keys are synchronised into the list.   *)
(***************************************************************************)
\* the messages consumers add: type, category, persistent
ActiveInputs ==
  { << "info", "vault-shares", TRUE >>,
    << "error", "withdraw", FALSE >>,
    << "success", "deposit", TRUE >> }

MessagesNext ==
  \/ \E input \in ActiveInputs :
       AddActiveMessage(input[1], input[2], input[3])
  \/ \E id \in IdsOf(activeMessages) : RemoveActiveMessage(id)
  \/ ClearActiveMessages
  \/ \E category \in MessageCategories : ClearMessagesByCategory(category)
  \/ \E isConnected, showWelcome, showWelcomeBack, hasDeposits \in BOOLEAN :
       WelcomeUpdate(isConnected, showWelcome, showWelcomeBack, hasDeposits)
  \/ \E key \in UpsertKeys, type \in StatusTypes :
       UpsertMessage(key, MessageData(type, NoHash))
  \/ \E key \in UpsertKeys : RemoveMessage(KeyId(key))
  \/ SyncTransactionMessages
  \/ AutoHideTick
  \/ TimePasses(AutoHideAge, AutoHideAge)

SpecMessages == InitStatus /\ [][MessagesNext]_vars

\* primaryMessage, MessageStateContext.tsx 249
primaryMessage ==
  IF Len(activeMessages) > 0 THEN << activeMessages[1] >> ELSE << >>

(* C38: after any sequence of message-state operations the active message  *)
(* list is ordered by descending priority, and the primary message has the *)
(* highest priority of the active messages.                                *)
C38_OrderedByPriority ==
  /\ \A i, j \in 1..Len(activeMessages) :
       i < j => activeMessages[i].priority >= activeMessages[j].priority
  /\ \A m \in Entries(primaryMessage), i \in 1..Len(activeMessages) :
       m.priority >= activeMessages[i].priority

\* the primary message was added after a message of lower priority that is
\* still in the list, and a welcome message is behind both
C38_Witness ==
  /\ Len(activeMessages) >= 3
  /\ activeMessages[1].priority > activeMessages[2].priority
  /\ activeMessages[1].id > activeMessages[2].id
  /\ activeMessages[Len(activeMessages)].category \in WelcomeCategories

=============================================================================
